---- MODULE Spec2Model ----
(***************************************************************************)
(* Model of spider's knowledge store (src/spider/storage/knowledge_graph.py):*)
(* the four sqlite tables behind one connection, the write operations with  *)
(* the commits they issue, and the read queries.                            *)
(*                                                                          *)
(* Text values (paths, file types, search patterns) are sequences of        *)
(* one-character strings, so that suffix extraction and LIKE matching are   *)
(* computed character by character.  An optional value is a set with at     *)
(* most one element: NULL is the empty set, Some(v) is {v}.                 *)
(***************************************************************************)
EXTENDS Integers, Sequences, FiniteSets, TLC

VARIABLES db, disk, now, ret, mon

vars == <<db, disk, now, ret, mon>>

----------------------------------------------------------------------------
(* Bounds of the model *)

\* file ids handed out by the files table (the rowid grows with every upsert)
MaxFileId == 3
\* row ids handed out by the system_snapshots table
MaxSnapRow == 2
\* row ids handed out by the file_changes table
MaxChangeRow == 2
\* number of days the clock advances
MaxDay == 1
\* references in one extractor result tree, over all its source files
MaxRefs == 2
\* entries of file_changes.recent_changes in one snapshot document
MaxChanges == 2
\* largest `limit` passed to get_most_connected_files
MaxLimit == 3
\* items of a list or tuple, entries of a dict, inside a snapshot document
MaxItems == 1
\* max_events of the tracker's ring (1000 by default)
MaxEvents == 2
\* directories in a monitor's watch_dirs
MaxDirs == 2
\* inotify channels open at once
MaxOpen == 2
\* largest value of a cumulative per-kind counter
MaxCount == 2
\* complete records in one buffer os.read returns
MaxRecords == 2
\* files of one scanned directory
MaxFiles == 21
\* files with outgoing references in one scan result
MaxNodes == 11
\* hours the clock advances while a monitor runs
MaxHours == 2

----------------------------------------------------------------------------
(* Optional values and small helpers *)

NULL == {}
Some(v) == {v}
TheValue(o) == CHOOSE v \in o : TRUE
OrElse(o, d) == IF o = NULL THEN d ELSE TheValue(o)

Max(S) == CHOOSE m \in S : \A x \in S : x <= m

\* the default of `strength=1.0`
DefaultStrength == 1

\* days * 24 * 3600
DaySeconds == 24 * 3600

----------------------------------------------------------------------------
(* Text *)

\* ASCII case folding, as sqlite's LIKE does it, for the letters in use
FoldCase(c) ==
    CASE c = "A" -> "a"
      [] c = "B" -> "b"
      [] c = "C" -> "c"
      [] c = "X" -> "x"
      [] OTHER -> c

\* s contains sub as a contiguous, case-sensitive run of characters
Contains(s, sub) ==
    \E i \in 0..(Len(s) - Len(sub)) : SubSeq(s, i + 1, i + Len(sub)) = sub

\* position of the last occurrence of character c in s, 0 when absent
LastIndexOf(s, c) ==
    LET hits == {i \in 1..Len(s) : s[i] = c}
    IN IF hits = {} THEN 0 ELSE Max(hits)

\* pathlib: the final component of a path
PathName(path) == SubSeq(path, LastIndexOf(path, "/") + 1, Len(path))

\* pathlib: Path(path).suffix ('' unless there is a dot strictly inside the name)
PathSuffix(path) ==
    LET name == PathName(path)
        i == LastIndexOf(name, ".")
    IN IF 1 < i /\ i < Len(name) THEN SubSeq(name, i, Len(name)) ELSE <<>>

\* str.lstrip('.')
RECURSIVE LStripDot(_)
LStripDot(s) ==
    IF s # <<>> /\ Head(s) = "." THEN LStripDot(Tail(s)) ELSE s

\* sqlite: str LIKE pat, without ESCAPE: % is any run, _ is any one character,
\* any other character matches itself up to ASCII case
RECURSIVE Like(_, _)
Like(pat, s) ==
    IF pat = <<>> THEN s = <<>>
    ELSE IF Head(pat) = "%"
         THEN Like(Tail(pat), s) \/ (s # <<>> /\ Like(pat, Tail(s)))
         ELSE /\ s # <<>>
              /\ (Head(pat) = "_" \/ FoldCase(Head(pat)) = FoldCase(Head(s)))
              /\ Like(Tail(pat), Tail(s))

----------------------------------------------------------------------------
(* Input sets *)

PathA == <<"/", "a", ".", "c">>
PathB == <<"/", "b", ".", "c">>
PathX == <<"/", "x">>
Paths == {PathA, PathB, PathX}

Kinds == {"config_includes", "path_references"}
Strengths == {DefaultStrength, 2}

\* relationship_types as passed to find_connected_files: omitted, or a list
KindFilters == {NULL} \cup {Some(q) : q \in {<<k>> : k \in Kinds}} \cup
               {Some(<<j, k>>) : j, k \in Kinds}

\* `pattern` and `file_type` as passed to search_files_by_pattern
Patterns == {<<"a">>, <<"A">>, <<"_">>, <<"%">>, <<".", "c">>}
SearchTypes == {NULL, Some(<<>>), Some(<<"c">>)}

\* `days` as passed to get_change_timeline (7 is the default)
DayCounts == {1, 7}

\* (file_type, size, modified_time, content_hash) as passed to add_file_record
FileArgs ==
    { [file_type |-> NULL, size |-> NULL, modified_time |-> NULL, content_hash |-> NULL],
      [file_type |-> Some(<<"t">>), size |-> Some(10), modified_time |-> Some(20),
       content_hash |-> Some("h1")] }
NoFileArgs ==
    [file_type |-> NULL, size |-> NULL, modified_time |-> NULL, content_hash |-> NULL]

----------------------------------------------------------------------------
(* The tables *)

EmptyTables ==
    [files |-> {}, relationships |-> {}, system_snapshots |-> {}, file_changes |-> {}]

\* INTEGER PRIMARY KEY without AUTOINCREMENT: one more than the largest rowid
NextRowId(rows) == IF rows = {} THEN 1 ELSE Max({r.id : r \in rows}) + 1

\* SELECT id FROM files WHERE path = ?  (NULL when there is no such row)
_get_file_id(tables, path) == {f.id : f \in {g \in tables.files : g.path = path}}

\* the path the files table holds for an id (NULL when no row has it)
PathOfId(tables, id) == {f.path : f \in {g \in tables.files : g.id = id}}

\* foreign keys not enforced: no deletion is refused
ForeignKeysOff(tables, gone) == FALSE

\* PRAGMA foreign_keys = ON with the REFERENCES files(id) clauses: deleting the
\* files rows `gone` is refused while a relationships or file_changes row
\* still names one of them
ForeignKeyViolated(tables, gone) ==
    \/ \E r \in tables.relationships :
          r.source_file_id \in gone \/ r.target_file_id \in gone
    \/ \E c \in tables.file_changes : c.file_id \in gone

\* conn.commit(): everything pending on the connection becomes durable
Commit(st) == [db |-> st.db, disk |-> st.db]

\* a call's outcome: the connection afterwards, whether it returned (ok) or
\* raised, and the value returned
Returned(st, val) == [st |-> st, ok |-> TRUE, val |-> val]
Raised(st) == [st |-> st, ok |-> FALSE, val |-> NULL]

\* add_file_record as a plain INSERT: the row of the path is not replaced
add_file_record_insert(st, path, a) ==
    LET ftype == IF a.file_type = NULL THEN LStripDot(PathSuffix(path))
                 ELSE TheValue(a.file_type)
        id == NextRowId(st.db.files)
        row == [id |-> id, path |-> path, file_type |-> ftype, size |-> a.size,
                modified_time |-> a.modified_time, content_hash |-> a.content_hash]
    IN Returned(Commit([st EXCEPT !.db.files = @ \cup {row}]), id)

\* add_file_record: INSERT OR REPLACE keyed by the UNIQUE path, then commit;
\* returns cursor.lastrowid
add_file_record(st, path, a) ==
    LET ftype == IF a.file_type = NULL THEN LStripDot(PathSuffix(path))
                 ELSE TheValue(a.file_type)
        old == {f \in st.db.files : f.path = path}
        id == NextRowId(st.db.files)
        row == [id |-> id, path |-> path, file_type |-> ftype, size |-> a.size,
                modified_time |-> a.modified_time, content_hash |-> a.content_hash]
    IN IF ForeignKeyViolated(st.db, {f.id : f \in old})
       THEN Raised(st)
       ELSE Returned(Commit([st EXCEPT !.db.files = (@ \ old) \cup {row}]), id)

\* a relationships row may be inserted only when both files rows exist
ParentMissing(tables, ids) == \E i \in ids : PathOfId(tables, i) = NULL

\* json.dumps(metadata) if metadata else None  (an empty bag is stored as NULL)
MetadataJson(metadata) ==
    IF metadata = NULL \/ TheValue(metadata) = <<>> THEN NULL ELSE metadata

\* INSERT OR REPLACE INTO relationships: the table has no UNIQUE constraint
\* besides its rowid, and the rowid is not supplied, so a row is always added
InsertRelationship(tables, sid, tid, rel_type, strength, metadata) ==
    [tables EXCEPT !.relationships = @ \cup
        {[id |-> NextRowId(tables.relationships), source_file_id |-> sid,
          target_file_id |-> tid, relationship_type |-> rel_type,
          strength |-> strength, metadata |-> MetadataJson(metadata)]}]

\* add_file_relationship: upsert (and commit) the source, upsert (and commit)
\* the target, insert the edge, commit
add_file_relationship(st, source_path, target_path, rel_type, strength, metadata) ==
    LET src == add_file_record(st, source_path, NoFileArgs)
        tgt == add_file_record(src.st, target_path, NoFileArgs)
    IN IF ~src.ok THEN Raised(src.st)
       ELSE IF ~tgt.ok THEN Raised(tgt.st)
       ELSE IF ParentMissing(tgt.st.db, {src.val, tgt.val}) THEN Raised(tgt.st)
       ELSE Returned(Commit([tgt.st EXCEPT !.db =
                InsertRelationship(@, src.val, tgt.val, rel_type, strength, metadata)]),
                NULL)

\* update_from_relationship_scan, inner loops over one entry's references
RECURSIVE AddReferences(_, _, _)
AddReferences(st, source_file, refs) ==
    IF refs = <<>> THEN Returned(st, NULL)
    ELSE LET r == add_file_relationship(st, source_file, Head(refs).target,
                                        Head(refs).kind, DefaultStrength, NULL)
         IN IF ~r.ok THEN r ELSE AddReferences(r.st, source_file, Tail(refs))

\* update_from_relationship_scan: for every connections entry of every directory,
\* upsert the source with its size and mtime, then add each reference
RECURSIVE update_from_relationship_scan(_, _)
update_from_relationship_scan(st, entries) ==
    IF entries = <<>> THEN Returned(st, NULL)
    ELSE LET e == Head(entries)
             f == add_file_record(st, e.file,
                      [file_type |-> NULL, size |-> e.size,
                       modified_time |-> e.modified, content_hash |-> NULL])
             r == AddReferences(f.st, e.file, e.references)
         IN IF ~f.ok THEN Raised(f.st)
            ELSE IF ~r.ok THEN r
            ELSE update_from_relationship_scan(r.st, Tail(entries))

\* the Python value None where a document gives a key that value
PyNone == "None"

\* Python values a document may hold under a key of its own: strings and
\* integers, lists and tuples of them, dicts keyed by strings or integers
PyStr(x) == [type |-> "str", s |-> x]
PyInt(x) == [type |-> "int", n |-> x]
PyList(q) == [type |-> "list", items |-> q]
PyTuple(q) == [type |-> "tuple", items |-> q]
PyDict(es) == [type |-> "dict", entries |-> es]

\* JSON values: strings, numbers, arrays, objects (their keys are strings)
JsonString(x) == [json |-> "string", s |-> x]
JsonNumber(x) == [json |-> "number", n |-> x]
JsonArray(q) == [json |-> "array", items |-> q]
JsonObject(es) == [json |-> "object", members |-> es]

\* json.dumps of a string or an integer
JsonScalar(v) == IF v.type = "str" THEN JsonString(v.s) ELSE JsonNumber(v.n)

\* json.dumps turns a dict key that is an integer into its decimal string
JsonKey(k) == IF k.type = "str" THEN k.s ELSE ToString(k.n)

\* json.dumps of a Python value: lists and tuples both become arrays, dict
\* keys become strings
JsonEncode(v) ==
    CASE v.type \in {"str", "int"} -> JsonScalar(v)
      [] v.type \in {"list", "tuple"} ->
            JsonArray([i \in 1..Len(v.items) |-> JsonScalar(v.items[i])])
      [] v.type = "dict" ->
            JsonObject({[name |-> JsonKey(e.key), value |-> JsonScalar(e.value)] :
                           e \in v.entries})

\* json.loads of a string or a number
PyScalar(j) == IF j.json = "string" THEN PyStr(j.s) ELSE PyInt(j.n)

\* json.loads of a JSON value: arrays become lists, objects become dicts
\* keyed by strings
JsonDecode(j) ==
    CASE j.json \in {"string", "number"} -> PyScalar(j)
      [] j.json = "array" ->
            PyList([i \in 1..Len(j.items) |-> PyScalar(j.items[i])])
      [] j.json = "object" ->
            PyDict({[key |-> PyStr(m.name), value |-> PyScalar(m.value)] :
                       m \in j.members})

\* json.dumps of a snapshot document: the object with the keys that are
\* present. The values of the keys the store knows are strings, numbers and
\* lists of string-keyed maps, which json.dumps and json.loads give back as
\* they were; the value under a document's own key ("extra") is encoded.
JsonDumps(snapshot_data) ==
    [k \in {j \in DOMAIN snapshot_data : snapshot_data[j] # NULL} |->
        IF k = "extra" THEN JsonEncode(TheValue(snapshot_data[k]))
        ELSE TheValue(snapshot_data[k])]

\* json.loads of a stored data_json
JsonLoads(data_json) ==
    [k \in DOMAIN data_json |->
        IF k = "extra" THEN JsonDecode(data_json[k]) ELSE data_json[k]]

\* f"snapshot_{datetime.now().strftime('%Y%m%d_%H%M%S')}"
StampId(clock) == "snapshot_" \o ToString(clock)

\* store_system_snapshot as a plain INSERT: a row of the same identifier stays
store_system_snapshot_insert(st, snapshot_data, clock, rejected) ==
    LET row == [id |-> NextRowId(st.db.system_snapshots),
                snapshot_id |-> OrElse(snapshot_data.scan_id, "snapshot_" \o ToString(clock)),
                timestamp |-> OrElse(snapshot_data.timestamp, clock),
                hostname |-> OrElse(snapshot_data.hostname, "unknown"),
                scan_type |-> OrElse(snapshot_data.scan_type, "unknown"),
                data_json |-> [k \in {j \in DOMAIN snapshot_data : snapshot_data[j] # NULL} |->
                                  TheValue(snapshot_data[k])]]
    IN IF rejected THEN Returned(st, FALSE)
       ELSE Returned(Commit([st EXCEPT !.db.system_snapshots = @ \cup {row}]), TRUE)

\* store_system_snapshot: INSERT OR REPLACE keyed by the UNIQUE snapshot_id,
\* then commit; any exception (here: the write being rejected) is caught and
\* reported as False
store_system_snapshot(st, snapshot_data, clock, rejected) ==
    LET snapshot_id == OrElse(snapshot_data.scan_id, StampId(clock))
        old == {r \in st.db.system_snapshots :
                   r.snapshot_id = snapshot_id /\ snapshot_id # PyNone}
        row == [id |-> NextRowId(st.db.system_snapshots),
                snapshot_id |-> snapshot_id,
                timestamp |-> OrElse(snapshot_data.timestamp, clock),
                hostname |-> OrElse(snapshot_data.hostname, "unknown"),
                scan_type |-> OrElse(snapshot_data.scan_type, "unknown"),
                data_json |-> JsonDumps(snapshot_data)]
    IN IF rejected THEN Returned(st, FALSE)
       ELSE Returned(Commit([st EXCEPT !.db.system_snapshots = (@ \ old) \cup {row}]),
                     TRUE)

\* ','.join(change['changes'])
RECURSIVE JoinComma(_)
JoinComma(q) ==
    IF q = <<>> THEN ""
    ELSE IF Len(q) = 1 THEN q[1]
    ELSE q[1] \o "," \o JoinComma(Tail(q))

\* update_graph_from_spider_data, the loop over file_changes.recent_changes:
\* upsert (and commit) the file, insert the change row under the id returned;
\* the rows are committed by the next commit on the connection
RECURSIVE TrackChanges(_, _)
TrackChanges(st, recent_changes) ==
    IF recent_changes = <<>> THEN Returned(Commit(st), NULL)
    ELSE LET change == Head(recent_changes)
             f == add_file_record(st, change.file, NoFileArgs)
             row == [id |-> NextRowId(f.st.db.file_changes), file_id |-> f.val,
                     change_type |-> JoinComma(change.changes), old_value |-> NULL,
                     new_value |-> Some(change.file), timestamp |-> change.time]
         IN IF ~f.ok THEN Raised(f.st)
            ELSE TrackChanges([f.st EXCEPT !.db.file_changes = @ \cup {row}],
                              Tail(recent_changes))

\* update_graph_from_spider_data, its end: True, or False when tracking raised
ReturnTracked(tracked) == Returned(tracked.st, tracked.ok)

\* update_graph_from_spider_data after the relationships were ingested: False
\* when that raised, else the file_changes are tracked when present
TrackAfterScan(scanned, snapshot) ==
    IF ~scanned.ok THEN Returned(scanned.st, FALSE)
    ELSE ReturnTracked(IF snapshot.file_changes = NULL THEN Returned(scanned.st, NULL)
                       ELSE TrackChanges(scanned.st, TheValue(snapshot.file_changes)))

\* update_graph_from_spider_data after the snapshot was stored (its result
\* is not looked at): file_relationships are ingested when present
ScanAfterStore(stored, snapshot) ==
    TrackAfterScan(IF snapshot.file_relationships = NULL THEN Returned(stored.st, NULL)
                   ELSE update_from_relationship_scan(stored.st,
                            TheValue(snapshot.file_relationships)),
                   snapshot)

\* update_graph_from_spider_data: store the snapshot, ingest file_relationships
\* and file_changes when present; True, or False when anything raised
update_graph_from_spider_data(st, snapshot, clock, rejected) ==
    ScanAfterStore(store_system_snapshot(st, snapshot, clock, rejected), snapshot)

----------------------------------------------------------------------------
(* Queries *)

\* the rows of a table in rowid order
RECURSIVE RowsById(_)
RowsById(rows) ==
    IF rows = {} THEN <<>>
    ELSE LET first == CHOOSE r \in rows : \A q \in rows : r.id <= q.id
         IN <<first>> \o RowsById(rows \ {first})

\* a list comprehension: F applied to every element of q, in order
MapSeq(q, F(_)) == IF q = <<>> THEN <<>> ELSE [i \in 1..Len(q) |-> F(q[i])]

\* json.loads(metadata) if metadata else {}
MetadataValue(metadata) == IF metadata = NULL THEN <<>> ELSE TheValue(metadata)

\* get_file_connections without the check of the file id
get_file_connections_unchecked(tables, file_path) ==
    [file |-> file_path, outgoing |-> <<>>, incoming |-> <<>>, related_files |-> {}]

\* get_file_connections: the outgoing and the incoming edges of a known file,
\* each joined to the files row at its other end
get_file_connections(tables, file_path) ==
    LET file_id == _get_file_id(tables, file_path)
        edges == RowsById(tables.relationships)
        Joined(r, end) == PathOfId(tables, end) # NULL
        Out(r) == [target |-> TheValue(PathOfId(tables, r.target_file_id)),
                   type |-> r.relationship_type, strength |-> r.strength,
                   metadata |-> MetadataValue(r.metadata)]
        In(r) == [source |-> TheValue(PathOfId(tables, r.source_file_id)),
                  type |-> r.relationship_type, strength |-> r.strength,
                  metadata |-> MetadataValue(r.metadata)]
        IsOut(r) == Some(r.source_file_id) = file_id /\ Joined(r, r.target_file_id)
        IsIn(r) == Some(r.target_file_id) = file_id /\ Joined(r, r.source_file_id)
        outgoing == MapSeq(SelectSeq(edges, IsOut), Out)
        incoming == MapSeq(SelectSeq(edges, IsIn), In)
    IN IF file_id = NULL
       THEN [error |-> "file not found"]
       ELSE [file |-> file_path, outgoing |-> outgoing, incoming |-> incoming,
             related_files |-> {outgoing[i].target : i \in 1..Len(outgoing)} \cup
                               {incoming[i].source : i \in 1..Len(incoming)}]

\* a bound query parameter: an integer or a text
IntParam(n) == <<"int", n>>
TextParam(t) == <<"text", t>>
\* sqlite comparison of an INTEGER column with a parameter (no text in use
\* reads as a number, so a text parameter equals no id)
IntColumnEquals(col, p) == p[1] = "int" /\ p[2] = col
\* sqlite comparison of a TEXT column with a parameter (no kind in use is the
\* decimal form of an id, so an integer parameter equals no kind)
TextColumnEquals(col, p) == p[1] = "text" /\ p[2] = col

\* find_connected_files, the parameter list: [file_id, file_id], extended by
\* the relationship types, then file_id appended
ConnectedParams(file_id, relationship_types) ==
    <<IntParam(file_id), IntParam(file_id)>> \o
    (IF relationship_types = NULL THEN <<>>
     ELSE MapSeq(TheValue(relationship_types), TextParam)) \o
    <<IntParam(file_id)>>

\* find_connected_files: the placeholders of the query are, in order,
\* source_file_id = ?, target_file_id = ?, f.id != ?, and then the ones of
\* relationship_type IN (...); the parameters are bound to them by position
find_connected_files(tables, file_path, relationship_types) ==
    LET file_id == _get_file_id(tables, file_path)
        filtered == relationship_types # NULL /\ TheValue(relationship_types) # <<>>
        params == ConnectedParams(TheValue(file_id),
                                  IF filtered THEN relationship_types ELSE NULL)
        InList(r) == \E i \in 4..Len(params) :
                        TextColumnEquals(r.relationship_type, params[i])
        Match(r, f) ==
            /\ f.id = r.target_file_id \/ f.id = r.source_file_id
            /\ \/ IntColumnEquals(r.source_file_id, params[1])
               \/ IntColumnEquals(r.target_file_id, params[2])
            /\ ~IntColumnEquals(f.id, params[3])
            /\ filtered => InList(r)
    IN IF file_id = NULL THEN {}
       ELSE {f.path : f \in {g \in tables.files :
                                \E r \in tables.relationships : Match(r, g)}}

\* COUNT(r.id) of LEFT JOIN relationships r ON (f.id = r.source_file_id OR
\* f.id = r.target_file_id)
ConnectionCount(tables, f) ==
    Cardinality({r \in tables.relationships :
                    f.id = r.source_file_id \/ f.id = r.target_file_id})

\* ORDER BY connection_count without DESC
RECURSIVE OrderByCountAsc(_, _)
OrderByCountAsc(tables, rows) ==
    IF rows = {} THEN <<>>
    ELSE LET least == CHOOSE r \in rows : \A q \in rows :
                        \/ Cardinality({e \in tables.relationships :
                               r.id = e.source_file_id \/ r.id = e.target_file_id}) <
                           Cardinality({e \in tables.relationships :
                               q.id = e.source_file_id \/ q.id = e.target_file_id})
                        \/ /\ Cardinality({e \in tables.relationships :
                                  r.id = e.source_file_id \/ r.id = e.target_file_id}) =
                              Cardinality({e \in tables.relationships :
                                  q.id = e.source_file_id \/ q.id = e.target_file_id})
                           /\ r.id <= q.id
         IN <<least>> \o OrderByCountAsc(tables, rows \ {least})

\* ORDER BY connection_count DESC over the groups in f.id order
RECURSIVE OrderByCountDesc(_, _)
OrderByCountDesc(tables, rows) ==
    IF rows = {} THEN <<>>
    ELSE LET best == CHOOSE r \in rows : \A q \in rows :
                        \/ ConnectionCount(tables, r) > ConnectionCount(tables, q)
                        \/ /\ ConnectionCount(tables, r) = ConnectionCount(tables, q)
                           /\ r.id <= q.id
         IN <<best>> \o OrderByCountDesc(tables, rows \ {best})

\* LIMIT ?  (a negative limit is no limit)
Limit(q, limit) ==
    IF limit < 0 \/ limit >= Len(q) THEN q ELSE SubSeq(q, 1, limit)

\* get_most_connected_files
get_most_connected_files(tables, limit) ==
    LET Entry(f) == [path |-> f.path, type |-> f.file_type,
                     connections |-> ConnectionCount(tables, f)]
    IN MapSeq(Limit(OrderByCountDesc(tables, tables.files), limit), Entry)

\* search_files_by_pattern: path LIKE '%pattern%', and file_type = ? only
\* when a non-empty file_type was passed
search_files_by_pattern(tables, pattern, file_type) ==
    LET typed == file_type # NULL /\ TheValue(file_type) # <<>>
    IN {[path |-> f.path, type |-> f.file_type, size |-> f.size,
         modified |-> f.modified_time] :
          f \in {g \in tables.files :
                    /\ Like(<<"%">> \o pattern \o <<"%">>, g.path)
                    /\ typed => g.file_type = TheValue(file_type)}}

\* ORDER BY timestamp DESC over the rows in rowid order
RECURSIVE OrderByTimeDesc(_)
OrderByTimeDesc(rows) ==
    IF rows = {} THEN <<>>
    ELSE LET best == CHOOSE r \in rows : \A q \in rows :
                        \/ r.timestamp > q.timestamp
                        \/ r.timestamp = q.timestamp /\ r.id <= q.id
         IN <<best>> \o OrderByTimeDesc(rows \ {best})

\* get_change_timeline: the file_changes rows of the file's id that are newer
\* than the cutoff, newest first
get_change_timeline(tables, file_path, days, clock) ==
    LET file_id == _get_file_id(tables, file_path)
        cutoff == clock - days * DaySeconds
        Entry(c) == [type |-> c.change_type, old |-> c.old_value,
                     new |-> c.new_value, time |-> c.timestamp]
    IN IF file_id = NULL THEN <<>>
       ELSE MapSeq(OrderByTimeDesc({c \in tables.file_changes :
                        Some(c.file_id) = file_id /\ c.timestamp > cutoff}), Entry)

\* get_database_stats: the three COUNT(*) and the two GROUP BY breakdowns
get_database_stats(tables) ==
    [total_files |-> Cardinality(tables.files),
     total_relationships |-> Cardinality(tables.relationships),
     total_snapshots |-> Cardinality(tables.system_snapshots),
     relationship_types |->
        [k \in {e.relationship_type : e \in tables.relationships} |->
            Cardinality({e \in tables.relationships : e.relationship_type = k})],
     file_types |->
        [t \in {f.file_type : f \in tables.files} |->
            Cardinality({f \in tables.files : f.file_type = t})]]

\* KnowledgeServer.get_snapshot_data: the payload of the row stored under the
\* identifier, parsed; `snapshot_id = ?` holds for no row when either side is
\* NULL
get_snapshot_data(tables, snapshot_id) ==
    LET found == {r \in tables.system_snapshots :
                     r.snapshot_id = snapshot_id /\ snapshot_id # PyNone}
    IN IF found = {} THEN [error |-> "Snapshot not found"]
       ELSE JsonLoads((CHOOSE r \in found : TRUE).data_json)

----------------------------------------------------------------------------
(* Extractor result trees and snapshot documents *)

\* sequences over S of length at most n without repeated elements
DistinctSeqs(S, n) ==
    {q \in UNION {[1..k -> S] : k \in 0..n} :
        \A i, j \in 1..Len(q) : i # j => q[i] # q[j]}

\* one reference of a connections entry: the kind it is listed under, the target
References(paths) == [kind : Kinds, target : paths]

\* the size and the modification time the extractor recorded for a source file
ScanSize == Some(30)
ScanModified == Some(40)

\* a connections entry: a source file with at least one reference
ScanEntries(paths, n) ==
    [file : paths, size : {ScanSize}, modified : {ScanModified},
     references : DistinctSeqs(References(paths), n) \ {<<>>}]

RECURSIVE CountRefs(_)
CountRefs(entries) ==
    IF entries = <<>> THEN 0
    ELSE Len(Head(entries).references) + CountRefs(Tail(entries))

\* the connections entries of all directories of a result tree, in iteration
\* order, holding at most n references in all
ScanTrees(paths, n) ==
    {t \in UNION {[1..k -> ScanEntries(paths, n)] : k \in 0..n} : CountRefs(t) <= n}

\* recent_changes as the monitor's summary lists them at time `clock`, over
\* the files of `paths`
ChangeLists(paths, clock) ==
    UNION {[1..k -> [file : paths, changes : {<<"created", "modified">>},
                     time : {clock}]] : k \in 0..MaxChanges}

NoKeys ==
    [scan_id |-> NULL, timestamp |-> NULL, hostname |-> NULL, scan_type |-> NULL,
     file_relationships |-> NULL, file_changes |-> NULL]

\* snapshot documents without graph keys
PlainDocs ==
    [scan_id : {NULL, Some("scan1")}, timestamp : {NULL, Some(0)},
     hostname : {NULL, Some("host1")}, scan_type : {NULL},
     file_relationships : {NULL}, file_changes : {NULL}]

\* strings and integers inside a document's own value
PyScalars == {PyStr("http"), PyInt(80)}

\* values a document holds under a key of its own, of at most n items: a
\* string, an integer, lists and tuples of integers, dicts of strings keyed
\* by strings or integers
PyValues(n) ==
    PyScalars \cup
    {PyList(q) : q \in UNION {[1..k -> {PyInt(80)}] : k \in 0..n}} \cup
    {PyTuple(q) : q \in UNION {[1..k -> {PyInt(80)}] : k \in 0..n}} \cup
    {PyDict(es) : es \in {x \in SUBSET [key : PyScalars, value : {PyStr("http")}] :
                             Cardinality(x) <= n}}

\* snapshot documents with a key of their own: without scan_id, with one,
\* and with scan_id None
PayloadDocs ==
    [scan_id : {NULL, Some("scan1"), Some(PyNone)}, timestamp : {Some(0)},
     hostname : {NULL}, scan_type : {NULL}, file_relationships : {NULL},
     file_changes : {NULL}, extra : {Some(v) : v \in PyValues(MaxItems)}]

\* snapshot documents with file_changes only
ChangeDocs(paths, clock) ==
    {[NoKeys EXCEPT !.file_changes = Some(c)] : c \in ChangeLists(paths, clock)}

\* snapshot documents with file_relationships, file_changes or both
GraphDocs(paths, clock) ==
    {[NoKeys EXCEPT !.file_relationships = Some(t)] : t \in ScanTrees(paths, 1)} \cup
    ChangeDocs(paths, clock) \cup
    {[NoKeys EXCEPT !.file_relationships = Some(t), !.file_changes = Some(<<c>>)] :
        t \in ScanTrees(paths, 1) \ {<<>>},
        c \in [file : paths, changes : {<<"created", "modified">>}, time : {clock}]}

----------------------------------------------------------------------------
(* File change monitor: local time *)

HourSeconds == 60 * 60

\* the instant the zone's clocks go back one hour: local time is one hour
\* ahead before it
DstEnd == HourSeconds

\* datetime.now().isoformat(): the local wall-clock reading of an instant
IsoFormat(t) == [local |-> IF t < DstEnd THEN t + HourSeconds ELSE t]

\* datetime.fromisoformat(text).timestamp(): the instant of a wall-clock
\* reading, the earlier one when the reading occurs twice (fold = 0)
FromIsoFormat(text) ==
    IF text.local - HourSeconds < DstEnd THEN text.local - HourSeconds
    ELSE text.local

----------------------------------------------------------------------------
(* File change monitor: the inotify event decoder *)

IN_ACCESS == 1
IN_MODIFY == 2
IN_ATTRIB == 4
IN_CLOSE_WRITE == 8
IN_CLOSE_NOWRITE == 16
IN_OPEN == 32
IN_MOVED_FROM == 64
IN_MOVED_TO == 128
IN_CREATE == 256
IN_DELETE == 512
IN_DELETE_SELF == 1024
IN_MOVE_SELF == 2048

\* the vocabulary, in the order the dict is iterated
EVENT_NAMES ==
    <<[mask |-> IN_ACCESS, name |-> "accessed"],
      [mask |-> IN_MODIFY, name |-> "modified"],
      [mask |-> IN_ATTRIB, name |-> "attributes_changed"],
      [mask |-> IN_CLOSE_WRITE, name |-> "closed_write"],
      [mask |-> IN_CLOSE_NOWRITE, name |-> "closed_nowrite"],
      [mask |-> IN_OPEN, name |-> "opened"],
      [mask |-> IN_MOVED_FROM, name |-> "moved_from"],
      [mask |-> IN_MOVED_TO, name |-> "moved_to"],
      [mask |-> IN_CREATE, name |-> "created"],
      [mask |-> IN_DELETE, name |-> "deleted"],
      [mask |-> IN_DELETE_SELF, name |-> "deleted_self"],
      [mask |-> IN_MOVE_SELF, name |-> "moved_self"]>>

EventKinds == {EVENT_NAMES[k].name : k \in 1..Len(EVENT_NAMES)}

\* size of the header struct.unpack('iIII', ...) reads
HeaderSize == 16

\* the whole mask in place of its bit
MaskOnly(mask, event_mask) == mask

\* mask & event_mask, for an event_mask of one bit
BitAnd(mask, event_mask) == IF (mask \div event_mask) % 2 = 1 THEN event_mask ELSE 0

\* four little-endian bytes read as unsigned ('I'); the model's words stay
\* below 2^31
UnpackU32(b) == b[1] + 256 * b[2] + 65536 * b[3] + 16777216 * b[4]

\* four little-endian bytes read as signed ('i')
UnpackI32(b) ==
    b[1] + 256 * b[2] + 65536 * b[3] +
    16777216 * (IF b[4] >= 128 THEN b[4] - 256 ELSE b[4])

\* data[i:j] of Python for 0-based i <= j: the bytes that exist in the range
Slice(data, i, j) ==
    IF i >= Len(data) THEN <<>>
    ELSE SubSeq(data, i + 1, IF j > Len(data) THEN Len(data) ELSE j)

\* bytes.rstrip(b'\0')
RECURSIVE RStripNul(_)
RStripNul(b) ==
    IF b # <<>> /\ b[Len(b)] = 0 THEN RStripNul(SubSeq(b, 1, Len(b) - 1)) ELSE b

\* .decode('utf-8', errors='ignore') on ASCII bytes and bytes that start no
\* valid sequence (0xFF): the latter are dropped
Utf8Ignore(b) == SelectSeq(b, LAMBDA c : c < 128)

\* the event_types list: the names whose bit is set, in vocabulary order
RECURSIVE EventTypes(_, _)
EventTypes(mask, k) ==
    IF k > Len(EVENT_NAMES) THEN <<>>
    ELSE (IF BitAnd(mask, EVENT_NAMES[k].mask) # 0 THEN <<EVENT_NAMES[k].name>> ELSE <<>>)
         \o EventTypes(mask, k + 1)

\* self.watches.get(wd, 'unknown')
WatchedDirectory(watches, wd) ==
    IF \E w \in watches : w.wd = wd
    THEN (CHOOSE w \in watches : w.wd = wd).path
    ELSE "unknown"

\* the decode loop of read_pending_events from 0-based offset i: the events
\* appended so far and whether struct.unpack raised on a short header. Beside
\* the fields of the code an event carries the instant datetime.now() read,
\* which the ISO text does not determine in an hour that occurs twice.
RECURSIVE DecodeFrom(_, _, _, _)
DecodeFrom(data, i, watches, clock) ==
    IF i >= Len(data) THEN [events |-> <<>>, raised |-> FALSE]
    ELSE IF Len(data) - i < HeaderSize THEN [events |-> <<>>, raised |-> TRUE]
    ELSE LET wd == UnpackI32(Slice(data, i, i + 4))
             mask == UnpackU32(Slice(data, i + 4, i + 8))
             cookie == UnpackU32(Slice(data, i + 8, i + 12))
             name_len == UnpackU32(Slice(data, i + 12, i + 16))
             name == IF name_len > 0
                     THEN Utf8Ignore(RStripNul(Slice(data, i + 16, i + 16 + name_len)))
                     ELSE <<>>
             directory == WatchedDirectory(watches, wd)
             event == [timestamp |-> IsoFormat(clock),
                       instant |-> clock,
                       path |-> [dir |-> directory, name |-> name],
                       directory |-> directory,
                       filename |-> name,
                       event_types |-> EventTypes(mask, 1),
                       mask |-> mask,
                       cookie |-> cookie]
             rest == DecodeFrom(data, i + 16 + name_len, watches, clock)
         IN [events |-> <<event>> \o rest.events, raised |-> rest.raised]

\* the kernel's side of struct inotify_event: a word as four little-endian
\* bytes, a header, and a record with its NUL-padded name
Pack32(n) == <<n % 256, (n \div 256) % 256, (n \div 65536) % 256, (n \div 16777216) % 256>>

Header(wd, mask, cookie, name_len) ==
    Pack32(wd) \o Pack32(mask) \o Pack32(cookie) \o Pack32(name_len)

Record(wd, mask, name) == Header(wd, mask, 0, Len(name)) \o name

\* the names "a" and "b" as the kernel pads them
NameA == <<97, 0, 0, 0>>
NameB == <<98, 0, 0, 0>>

\* what one read of a quiet session returns
SessionBuffers == {Record(1, IN_CREATE, NameA)}

\* reads of a busy session: one record, two records, three records, and a
\* record followed by the first half of a header
RingBuffers ==
    {Record(1, IN_CREATE, NameA),
     Record(1, IN_MODIFY, NameA) \o Record(2, IN_DELETE, NameB),
     Record(2, IN_CREATE, NameB) \o Record(2, IN_MODIFY, NameB) \o
        Record(1, IN_DELETE, NameA),
     Record(1, IN_CREATE, NameA) \o Pack32(1) \o Pack32(IN_MODIFY)}

\* the records of the decode buffers: a created file, a nameless record with
\* two kinds, a created directory, a record of a watch that is gone with no
\* recognised bit, and a record with an empty mask whose name holds a byte
\* that is not UTF-8
DecodeRecords ==
    LET \* bits of the kernel that the vocabulary does not name
        in_ignored == 32768
        in_isdir == 1073741824
    IN {Record(1, IN_CREATE, NameA),
        Record(1, IN_MODIFY + IN_ATTRIB, <<>>),
        Record(1, in_isdir + IN_CREATE, NameB),
        Record(9, in_ignored, <<>>),
        Record(1, 0, <<255, 98, 0, 0>>)}

\* how a buffer ends: with its last record, with the first half of a header,
\* or with a record that declares 16 bytes of name and brings two
DecodeTails ==
    {<<>>,
     Pack32(1) \o Pack32(IN_MODIFY),
     Header(1, IN_DELETE, 0, HeaderSize) \o <<98, 99>>}

RECURSIVE Concat(_)
Concat(q) == IF q = <<>> THEN <<>> ELSE Head(q) \o Concat(Tail(q))

\* what os.read can return: up to MaxRecords records and a tail
DecodeBuffers ==
    {Concat(q) \o t : q \in UNION {[1..n -> DecodeRecords] : n \in 0..MaxRecords},
                      t \in DecodeTails} \ {<<>>}

\* reads of one record and of three
SampleBuffers ==
    {Record(1, IN_CREATE, NameA),
     Record(2, IN_CREATE, NameB) \o Record(2, IN_MODIFY, NameB) \o
        Record(1, IN_DELETE, NameA)}

\* the windows a summary is asked for, in minutes
Windows == {5, 60, 120}

----------------------------------------------------------------------------
(* File change monitor: the tracker and the session *)

\* the directories a caller asks to be watched
Dirs == {"/etc", "/var/log"}

\* the list the session of the store's runs is built with
WatchDirs == <<"/etc", "/var/log">>

\* FileChangeMonitor(watch_dirs) with its INotifyTracker; `open` is the set
\* of inotify channels the process holds, `kernel` the watch table of the
\* channel self.fd names
FileChangeMonitor(watch_dirs) ==
    [impl |-> "FileChangeMonitor",
     watch_dirs |-> IF watch_dirs = <<>> THEN WatchDirs ELSE watch_dirs,
     running |-> FALSE, fd |-> NULL, watches |-> {},
     events |-> <<>>, stats |-> [k \in EventKinds |-> 0],
     open |-> {}, kernel |-> {}]

\* FileChangeTracker(watch_dirs) of real-time_file_monitor.py with its
\* INotifyMonitor: the same fields
FileChangeTracker(watch_dirs) ==
    [FileChangeMonitor(watch_dirs) EXCEPT !.impl = "FileChangeTracker"]

\* the descriptor the process's first inotify_init returns
FirstFd == 3

\* the lowest descriptor not in use
NewFd(open) == CHOOSE n \in FirstFd..(FirstFd + Cardinality(open)) :
                  n \notin open /\ \A k \in FirstFd..(n - 1) : k \in open

\* initialize_inotify: loading libc raises ("no_libc"), inotify_init
\* returns -1 ("refused") or a new descriptor ("opened")
initialize_inotify(m, outcome) ==
    CASE outcome = "no_libc" -> [m |-> m, val |-> FALSE]
      [] outcome = "refused" -> [m |-> [m EXCEPT !.fd = Some(-1)], val |-> FALSE]
      [] outcome = "opened" ->
            [m |-> [m EXCEPT !.fd = Some(NewFd(m.open)),
                             !.open = @ \cup {NewFd(m.open)},
                             !.kernel = {}],
             val |-> TRUE]

\* inotify_add_watch on the channel: the watch descriptor the path already
\* has, or the next one
KernelWd(kernel, path) ==
    IF \E w \in kernel : w.path = path
    THEN (CHOOSE w \in kernel : w.path = path).wd
    ELSE Cardinality(kernel) + 1

\* add_directory_watch: None without a channel or for a missing path, None
\* when the kernel refuses, else the watch descriptor, recorded in watches
add_directory_watch(m, path, exists, refused) ==
    IF m.fd = NULL \/ path \notin exists \/ path \in refused \/ TheValue(m.fd) < 0
    THEN [m |-> m, val |-> NULL]
    ELSE LET wd == KernelWd(m.kernel, path)
         IN [m |-> [m EXCEPT !.kernel = @ \cup {[wd |-> wd, path |-> path]},
                             !.watches = {w \in @ : w.wd # wd} \cup
                                         {[wd |-> wd, path |-> path]}],
             val |-> Some(wd)]

\* the loop of start_monitoring over watch_dirs from index i: the monitor
\* and watch_count
RECURSIVE AddWatches(_, _, _, _)

\* one round of the loop, after add_directory_watch returned
AddWatchesAfter(added, i, exists, refused) ==
    LET rest == AddWatches(added.m, i + 1, exists, refused)
    IN [m |-> rest.m,
        watch_count |-> rest.watch_count + (IF added.val # NULL THEN 1 ELSE 0)]

AddWatches(m, i, exists, refused) ==
    IF i > Len(m.watch_dirs) THEN [m |-> m, watch_count |-> 0]
    ELSE AddWatchesAfter(
            IF m.watch_dirs[i] \in exists
            THEN add_directory_watch(m, m.watch_dirs[i], exists, refused)
            ELSE [m |-> m, val |-> NULL],
            i, exists, refused)

\* start_monitoring after the watches were added
StartAfterWatches(watched) ==
    IF watched.watch_count > 0
    THEN [m |-> [watched.m EXCEPT !.running = TRUE], val |-> TRUE]
    ELSE [m |-> watched.m, val |-> FALSE]

\* start_monitoring after initialize_inotify returned
StartAfterInit(init, exists, refused) ==
    IF ~init.val THEN [m |-> init.m, val |-> FALSE]
    ELSE StartAfterWatches(AddWatches(init.m, 1, exists, refused))

\* start_monitoring: False when the channel did not open; else True, and
\* running, when at least one watch was added
start_monitoring(m, outcome, exists, refused) ==
    StartAfterInit(initialize_inotify(m, outcome), exists, refused)

\* INotifyMonitor.add_watch: None without a channel; else the reference to
\* ctypes, which the module never imports, raises NameError and the handler
\* returns None
add_watch(m, path) == [m |-> m, val |-> NULL]

\* the loop of start_tracking over watch_dirs from index i
RECURSIVE TrackWatches(_, _, _)
TrackWatches(m, i, exists) ==
    IF i > Len(m.watch_dirs) THEN m
    ELSE TrackWatches(IF m.watch_dirs[i] \in exists
                      THEN add_watch(m, m.watch_dirs[i]).m ELSE m,
                      i + 1, exists)

\* start_tracking after INotifyMonitor.start_monitoring returned: running
\* and True whatever the loop registered
TrackAfterInit(init, exists) ==
    IF ~init.val THEN [m |-> init.m, val |-> FALSE]
    ELSE [m |-> [TrackWatches(init.m, 1, exists) EXCEPT !.running = TRUE],
          val |-> TRUE]

\* FileChangeTracker.start_tracking
start_tracking(m, outcome, exists) ==
    TrackAfterInit(initialize_inotify(m, outcome), exists)

\* a list that keeps everything appended to it
RingUnbounded(ring, new, max_events) == ring \o new

\* deque(maxlen=max_events) after appending: the newest max_events entries
RingAppend(ring, new, max_events) ==
    IF Len(ring \o new) <= max_events THEN ring \o new
    ELSE SubSeq(ring \o new, Len(ring \o new) - max_events + 1, Len(ring \o new))

\* occurrences of a kind in the event_types of a list of events
RECURSIVE KindCount(_, _)
KindCount(events, kind) ==
    IF events = <<>> THEN 0
    ELSE Len(SelectSeq(Head(events).event_types, LAMBDA n : n = kind))
         + KindCount(Tail(events), kind)

\* read_pending_events after the decode loop ran: the events are in the ring
\* and counted; [] is returned when the loop raised
ReadAfterDecode(m, decoded, max_events) ==
    [m |-> [m EXCEPT !.events = RingAppend(@, decoded.events, max_events),
                     !.stats = [k \in EventKinds |->
                                   @[k] + KindCount(decoded.events, k)]],
     val |-> IF decoded.raised THEN <<>> ELSE decoded.events,
     raised |-> FALSE, waited |-> TRUE, appended |-> decoded.events]

\* read_pending_events: [] without a channel; select raises ValueError on a
\* negative descriptor; [] when select times out; else os.read and decode
read_pending_events(m, ready, data, clock, max_events) ==
    IF m.fd = NULL
    THEN [m |-> m, val |-> <<>>, raised |-> FALSE, waited |-> FALSE, appended |-> <<>>]
    ELSE IF TheValue(m.fd) < 0
    THEN [m |-> m, val |-> <<>>, raised |-> TRUE, waited |-> FALSE, appended |-> <<>>]
    ELSE IF ~ready
    THEN [m |-> m, val |-> <<>>, raised |-> FALSE, waited |-> TRUE, appended |-> <<>>]
    ELSE ReadAfterDecode(m, DecodeFrom(data, 0, m.watches, clock), max_events)

\* poll_changes: [] unless running
poll_changes(m, ready, data, clock, max_events) ==
    IF ~m.running
    THEN [m |-> m, val |-> <<>>, raised |-> FALSE, waited |-> FALSE, appended |-> <<>>]
    ELSE read_pending_events(m, ready, data, clock, max_events)

\* cleanup: nothing without a descriptor; os.close raises OSError on a
\* descriptor that is not open; else the channel is closed and forgotten
cleanup(m) ==
    IF m.fd = NULL THEN [m |-> m, raised |-> FALSE]
    ELSE IF TheValue(m.fd) \notin m.open THEN [m |-> m, raised |-> TRUE]
    ELSE [m |-> [m EXCEPT !.open = @ \ m.fd, !.fd = NULL, !.watches = {},
                          !.kernel = {}],
          raised |-> FALSE]

\* stop_monitoring
stop_monitoring(m) == cleanup([m EXCEPT !.running = FALSE])

\* get_recent_events: the ring's events whose parsed timestamp is not before
\* the cutoff
get_recent_events(events, minutes, clock) ==
    SelectSeq(events, LAMBDA e : FromIsoFormat(e.timestamp) >= clock - minutes * 60)

\* size of the recent_changes sample
SampleSize == 10

\* the aggregation of get_change_summary over the filtered events
Summarize(events, minutes) ==
    [period_minutes |-> minutes,
     total_events |-> Len(events),
     files_changed |-> {events[i].path : i \in 1..Len(events)},
     directories_affected |-> {events[i].directory : i \in 1..Len(events)},
     event_breakdown |->
        [k \in {j \in EventKinds : KindCount(events, j) > 0} |-> KindCount(events, k)],
     recent_changes |->
        [i \in 1..(IF Len(events) < SampleSize THEN Len(events) ELSE SampleSize) |->
            [time |-> events[i].timestamp, file |-> events[i].path,
             changes |-> events[i].event_types]]]

\* get_change_summary
get_change_summary(m, minutes, clock) ==
    Summarize(get_recent_events(m.events, minutes, clock), minutes)

\* MockFileMonitor(watch_dirs)
MockFileMonitor(watch_dirs) ==
    [impl |-> "MockFileMonitor", watch_dirs |-> watch_dirs, running |-> FALSE]

\* the None a caller holds in place of a monitor
NoMonitor == [impl |-> "NoneType"]

\* start_file_monitoring after start_monitoring returned: the monitor, or
\* the fallback of the module
StartedOr(started, fallback) == IF started.val THEN started.m ELSE fallback

\* start_file_monitoring of scanners/monitor.py: falls back to the mock
start_file_monitoring(directories, outcome, exists, refused) ==
    StartedOr(start_monitoring(FileChangeMonitor(directories), outcome, exists, refused),
              MockFileMonitor(IF directories = <<>> THEN WatchDirs ELSE directories))

\* start_file_monitoring of scanners/inotify_monitor.py: falls back to None
inotify_start_file_monitoring(directories, outcome, exists, refused) ==
    StartedOr(start_monitoring(FileChangeMonitor(directories), outcome, exists, refused),
              NoMonitor)

\* monitor.poll_changes() on what the caller holds: AttributeError on None,
\* [] on the mock
HandlePoll(h, ready, data, clock, max_events) ==
    CASE h.impl = "NoneType" ->
            [m |-> h, val |-> <<>>, raised |-> TRUE, waited |-> FALSE, appended |-> <<>>]
      [] h.impl = "MockFileMonitor" ->
            [m |-> h, val |-> <<>>, raised |-> FALSE, waited |-> FALSE, appended |-> <<>>]
      [] OTHER -> poll_changes(h, ready, data, clock, max_events)

\* MockFileMonitor.get_change_summary
MockSummary ==
    [error |-> "file monitoring not available", total_events |-> 0,
     files_changed |-> {}, directories_affected |-> {},
     event_breakdown |-> <<>>, recent_changes |-> <<>>]

\* get_file_changes(monitor, minutes)
get_file_changes(h, minutes, clock) ==
    CASE h.impl = "NoneType" -> [error |-> "monitoring not active"]
      [] h.impl = "MockFileMonitor" -> MockSummary
      [] OTHER -> get_change_summary(h, minutes, clock)

----------------------------------------------------------------------------
(* File relationship scanner *)

\* os.path.dirname
DirName(path) ==
    IF LastIndexOf(path, "/") <= 1 THEN SubSeq(path, 1, LastIndexOf(path, "/"))
    ELSE SubSeq(path, 1, LastIndexOf(path, "/") - 1)

\* os.path.join(a, b) for a relative b
PathJoin(a, b) == IF a # <<>> /\ a[Len(a)] = "/" THEN a \o b ELSE a \o <<"/">> \o b

\* the extensions scan_directory collects, in the order it globs them
ScanExtensions ==
    <<<<".", "c", "o", "n", "f">>, <<".", "c", "f", "g">>, <<".", "y", "m", "l">>,
      <<".", "y", "a", "m", "l">>, <<".", "j", "s", "o", "n">>, <<".", "p", "y">>,
      <<".", "s", "h">>, <<".", "s", "e", "r", "v", "i", "c", "e">>>>

\* self.patterns in dict order: the kind and the words that introduce a
\* reference of that kind. A line of a file is a directive [word, arg,
\* quoted]; path patterns match a quoted absolute argument with an extension
\* of two to four letters, whatever the word. The older scanner
\* (file_relationship_scanner.py) names its kinds differently.
Patterns_(impl) ==
    IF impl = "FileRelationshipMapper"
    THEN <<[kind |-> "config_include", words |-> {"include", "source", "@import", "require"}],
           [kind |-> "path_reference", words |-> {}],
           [kind |-> "python_import", words |-> {"from", "import"}],
           [kind |-> "docker_reference", words |-> {"image:", "FROM", "volume:"}]>>
    ELSE <<[kind |-> "include", words |-> {"include", "source", "@import", "require"}],
           [kind |-> "path_ref", words |-> {}],
           [kind |-> "python_import", words |-> {"from", "import"}],
           [kind |-> "docker_ref", words |-> {"image:", "FROM", "volume:"}]>>

\* whether a directive matches a pattern entry
Matches(entry, line) ==
    IF entry.words = {}
    THEN /\ line.quoted
         /\ line.arg # <<>> /\ Head(line.arg) = "/"
         /\ Len(PathSuffix(line.arg)) \in 3..5
    ELSE line.word \in entry.words

\* relative references are resolved against the directory of the file
ResolveRef(filepath, ref) ==
    IF ref # <<>> /\ Head(ref) = "/" THEN ref ELSE PathJoin(DirName(filepath), ref)

\* scan_file_content: for each kind in pattern order that matched, the set of
\* resolved references
RECURSIVE ScanPatterns(_, _, _, _)
ScanPatterns(patterns, k, filepath, content) ==
    IF k > Len(patterns) THEN <<>>
    ELSE LET found == {ResolveRef(filepath, content[i].arg) :
                          i \in {j \in 1..Len(content) : Matches(patterns[k], content[j])}}
         IN (IF found = {} THEN <<>>
             ELSE <<[kind |-> patterns[k].kind, targets |-> found]>>)
            \o ScanPatterns(patterns, k + 1, filepath, content)

scan_file_content(impl, file) == ScanPatterns(Patterns_(impl), 1, file.path, file.content)

\* the files scan_directory collects: those whose suffix is one of the
\* extensions, extension by extension
RECURSIVE Collect(_, _)
Collect(files, k) ==
    IF k > Len(ScanExtensions) THEN <<>>
    ELSE SelectSeq(files, LAMBDA f : PathSuffix(f.path) = ScanExtensions[k])
         \o Collect(files, k + 1)

\* the connections of scan_directory: an entry for every collected file in
\* which a pattern matched
RECURSIVE Connections(_, _)
Connections(impl, scanned) ==
    IF scanned = <<>> THEN <<>>
    ELSE (IF scan_file_content(impl, Head(scanned)) = <<>> THEN <<>>
          ELSE <<[file |-> Head(scanned).path, size |-> Head(scanned).size,
                  modified |-> Head(scanned).modified,
                  references |-> scan_file_content(impl, Head(scanned))]>>)
         \o Connections(impl, Tail(scanned))

\* the targets of all references of the connections
ReferencedFiles(connections) ==
    UNION {UNION {connections[i].references[j].targets :
                     j \in 1..Len(connections[i].references)} :
              i \in 1..Len(connections)}

\* size of the orphaned_files sample
OrphanSample == 20

\* list(s)[:k] of a set: any k of its elements (all when there are fewer)
RECURSIVE Samples(_, _)
Samples(S, k) ==
    IF Cardinality(S) <= k THEN {S} ELSE UNION {Samples(S \ {x}, k) : x \in S}

\* the values orphaned_files can take: FileRelationshipMapper.scan_directory
\* never assigns it; the older scanner samples the collected files that no
\* reference names
OrphanedFiles(impl, scanned, connections) ==
    IF impl = "FileRelationshipMapper" THEN {{}}
    ELSE Samples({scanned[i].path : i \in 1..Len(scanned)} \ ReferencedFiles(connections),
                 OrphanSample)

\* scan_directory, given the files under the directory and the sample drawn
scan_directory(impl, directory, files, orphaned) ==
    [directory |-> directory,
     files_scanned |-> Len(Collect(files, 1)),
     connections |-> Connections(impl, Collect(files, 1)),
     orphaned_files |-> orphaned]

\* files of the directory /e
ConfApp == <<"/", "e", "/", "a", ".", "c", "f", "g">>
ConfDb == <<"/", "e", "/", "d", ".", "c", "f", "g">>
TextNote == <<"/", "e", "/", "n", ".", "t", "x", "t">>

\* contents: nothing, prose, a relative include of d.cfg, a quoted absolute
\* include of it, and a docker line beside a relative include
Contents ==
    {<<>>,
     <<[word |-> "note", arg |-> <<"d", ".", "c", "f", "g">>, quoted |-> FALSE]>>,
     <<[word |-> "include", arg |-> <<"d", ".", "c", "f", "g">>, quoted |-> TRUE]>>,
     <<[word |-> "include", arg |-> ConfDb, quoted |-> TRUE]>>,
     <<[word |-> "FROM", arg |-> <<"a", ".", "c", "f", "g">>, quoted |-> FALSE],
       [word |-> "include", arg |-> <<"d", ".", "c", "f", "g">>, quoted |-> FALSE]>>}

\* st_size is the number of lines here; st_mtime is the same for all files
FileOf(path, content) ==
    [path |-> path, size |-> Len(content), modified |-> 0, content |-> content]

\* names of files
Letters ==
    <<"a", "b", "c", "d", "e", "f", "g", "h", "i", "j", "k", "l", "m", "n", "o",
      "p", "q", "r", "s", "t", "u">>

\* n empty files /e/a.cfg, /e/b.cfg, ...
ManyFiles(n) ==
    [i \in 1..n |-> FileOf(<<"/", "e", "/", Letters[i], ".", "c", "f", "g">>, <<>>)]

\* the directories that are scanned: a.cfg and d.cfg with any contents, a.cfg
\* beside a text file, and directories of many empty files
Directories ==
    {<<FileOf(ConfApp, c), FileOf(ConfDb, d)>> : c \in Contents, d \in Contents} \cup
    {<<FileOf(TextNote, c), FileOf(ConfApp, d)>> : c \in Contents, d \in Contents} \cup
    {ManyFiles(n) : n \in (MaxFiles - 1)..MaxFiles}

----------------------------------------------------------------------------
(* Dependency graph of a scan result *)

\* a scan result as build_dependency_graph reads it: connections in dict
\* order, each with its references in dict order, each kind with its list of
\* targets
RefsOne == <<[kind |-> "config_include", targets |-> <<ConfDb>>]>>
RefsThree ==
    <<[kind |-> "config_include", targets |-> <<ConfDb>>],
      [kind |-> "path_reference", targets |-> <<ConfDb, ConfApp>>]>>

ConnectionLists ==
    UNION {{[i \in 1..n |->
               [file |-> <<"/", Letters[i], ".", "c", "f", "g">>, size |-> i,
                modified |-> 0, references |-> shape[i]]] :
             shape \in [1..n -> {RefsOne, RefsThree}]} : n \in 0..MaxNodes}

\* graph['nodes']
Nodes(connections) ==
    [i \in 1..Len(connections) |->
        [id |-> connections[i].file, size |-> connections[i].size,
         modified |-> connections[i].modified,
         type |-> PathSuffix(connections[i].file)]]

\* the edges of one kind of one source, in list order
TargetEdges(source, ref) ==
    [i \in 1..Len(ref.targets) |->
        [source |-> source, target |-> ref.targets[i], type |-> ref.kind]]

RECURSIVE SourceEdges(_, _)
SourceEdges(source, references) ==
    IF references = <<>> THEN <<>>
    ELSE TargetEdges(source, Head(references)) \o SourceEdges(source, Tail(references))

RECURSIVE AllEdges(_)
AllEdges(connections) ==
    IF connections = <<>> THEN <<>>
    ELSE SourceEdges(Head(connections).file, Head(connections).references)
         \o AllEdges(Tail(connections))

\* graph['edges']: edge_id starts at 0 and is incremented after each append
Edges(connections) ==
    [i \in 1..Len(AllEdges(connections)) |->
        [id |-> i - 1, source |-> AllEdges(connections)[i].source,
         target |-> AllEdges(connections)[i].target,
         type |-> AllEdges(connections)[i].type]]

\* sum(len(refs) for refs in references.values())
RECURSIVE TotalRefs(_)
TotalRefs(references) ==
    IF references = <<>> THEN 0
    ELSE Len(Head(references).targets) + TotalRefs(Tail(references))

\* connection_counts.items()
ConnectionCounts(connections) ==
    [i \in 1..Len(connections) |->
        [file |-> connections[i].file,
         connections |-> TotalRefs(connections[i].references)]]

\* an insertion that puts an item before the items of equal count
InsertBeforeTies(sorted, item) ==
    LET k == Cardinality({i \in 1..Len(sorted) :
                             sorted[i].connections > item.connections})
    IN SubSeq(sorted, 1, k) \o <<item>> \o SubSeq(sorted, k + 1, Len(sorted))

\* sorted(..., key=count, reverse=True) is stable: an item goes after the
\* items seen before it whose count is at least its own
InsertDesc(sorted, item) ==
    LET k == Cardinality({i \in 1..Len(sorted) :
                             sorted[i].connections >= item.connections})
    IN SubSeq(sorted, 1, k) \o <<item>> \o SubSeq(sorted, k + 1, Len(sorted))

RECURSIVE SortDesc(_, _)
SortDesc(items, n) ==
    IF n = 0 THEN <<>> ELSE InsertDesc(SortDesc(items, n - 1), items[n])

\* length of the most_connected list
TopSize == 10

\* _find_most_connected
find_most_connected(connections) ==
    SubSeq(SortDesc(ConnectionCounts(connections), Len(connections)), 1,
           IF Len(connections) < TopSize THEN Len(connections) ELSE TopSize)

\* type_counts[ref_type] += len(refs), over all connections
RECURSIVE CountKind(_, _)
CountKind(references, kind) ==
    IF references = <<>> THEN 0
    ELSE (IF Head(references).kind = kind THEN Len(Head(references).targets) ELSE 0)
         + CountKind(Tail(references), kind)

RECURSIVE CountType(_, _)
CountType(connections, kind) ==
    IF connections = <<>> THEN 0
    ELSE CountKind(Head(connections).references, kind)
         + CountType(Tail(connections), kind)

\* _count_connection_types: a count for every kind that occurs
count_connection_types(connections) ==
    [kind \in UNION {{connections[i].references[j].kind :
                         j \in 1..Len(connections[i].references)} :
                      i \in 1..Len(connections)}
        |-> CountType(connections, kind)]

\* build_dependency_graph
build_dependency_graph(connections) ==
    [nodes |-> Nodes(connections),
     edges |-> Edges(connections),
     stats |-> [total_files |-> Len(Nodes(connections)),
                total_connections |-> Len(Edges(connections)),
                most_connected |-> find_most_connected(connections),
                connection_types |-> count_connection_types(connections)]]

----------------------------------------------------------------------------
(* Operations of the store *)

Conn == [db |-> db, disk |-> disk]

\* the row ids the call handed out stay within the bounds of the model
WithinBounds(tables) ==
    /\ NextRowId(tables.files) <= MaxFileId + 1
    /\ NextRowId(tables.system_snapshots) <= MaxSnapRow + 1
    /\ NextRowId(tables.file_changes) <= MaxChangeRow + 1

AddFileRecord(paths, args) ==
    \E p \in paths, a \in args :
        LET r == add_file_record(Conn, p, a)
        IN /\ WithinBounds(r.st.db)
           /\ db' = r.st.db
           /\ disk' = r.st.disk
           /\ ret' = [op |-> "add_file_record", path |-> p, args |-> a,
                      ok |-> r.ok, val |-> r.val,
                      same |-> \E f \in db.files :
                                  /\ f.path = p
                                  /\ f.size = a.size
                                  /\ f.modified_time = a.modified_time
                                  /\ f.content_hash = a.content_hash
                                  /\ a.file_type # NULL => Some(f.file_type) = a.file_type]
           /\ UNCHANGED <<now, mon>>

AddFileRelationship(paths, kinds, strengths) ==
    \E s \in paths, t \in paths, k \in kinds, w \in strengths :
        LET r == add_file_relationship(Conn, s, t, k, w, NULL)
        IN /\ WithinBounds(r.st.db)
           /\ db' = r.st.db
           /\ disk' = r.st.disk
           /\ ret' = [op |-> "add_file_relationship", source |-> s, target |-> t,
                      kind |-> k, strength |-> w, ok |-> r.ok,
                      existed |-> \E e \in db.relationships :
                                     /\ PathOfId(db, e.source_file_id) = Some(s)
                                     /\ PathOfId(db, e.target_file_id) = Some(t)
                                     /\ e.relationship_type = k]
           /\ UNCHANGED <<now, mon>>

UpdateFromRelationshipScan ==
    \E t \in ScanTrees(Paths, MaxRefs) :
        LET r == update_from_relationship_scan(Conn, t)
        IN /\ WithinBounds(r.st.db)
           /\ db' = r.st.db
           /\ disk' = r.st.disk
           /\ ret' = [op |-> "update_from_relationship_scan", scan_results |-> t,
                      ok |-> r.ok]
           /\ UNCHANGED <<now, mon>>

StoreSystemSnapshot(docs) ==
    \E d \in docs, rejected \in BOOLEAN :
        LET r == store_system_snapshot(Conn, d, now, rejected)
        IN /\ WithinBounds(r.st.db)
           /\ db' = r.st.db
           /\ disk' = r.st.disk
           /\ ret' = [op |-> "store_system_snapshot", snapshot_data |-> d,
                      rejected |-> rejected, val |-> r.val,
                      existed |-> \E row \in db.system_snapshots :
                                     /\ row.snapshot_id = OrElse(d.scan_id, StampId(now))
                                     /\ row.snapshot_id # PyNone,
                      was |-> {row.hostname : row \in {q \in db.system_snapshots :
                                 q.snapshot_id = OrElse(d.scan_id, StampId(now))}},
                      count |-> Cardinality(db.system_snapshots)]
           /\ UNCHANGED <<now, mon>>

UpdateGraphFromSpiderData(docs, rejections) ==
    \E d \in docs, rejected \in rejections :
        LET r == update_graph_from_spider_data(Conn, d, now, rejected)
        IN /\ WithinBounds(r.st.db)
           /\ db' = r.st.db
           /\ disk' = r.st.disk
           /\ ret' = [op |-> "update_graph_from_spider_data", snapshot |-> d,
                      rejected |-> rejected, val |-> r.val]
           /\ UNCHANGED <<now, mon>>

GetFileConnections ==
    \E p \in Paths :
        /\ ret' = [op |-> "get_file_connections", path |-> p,
                   val |-> get_file_connections(db, p)]
        /\ UNCHANGED <<db, disk, now, mon>>

FindConnectedFiles ==
    \E p \in Paths, ks \in KindFilters :
        /\ ret' = [op |-> "find_connected_files", path |-> p, kinds |-> ks,
                   val |-> find_connected_files(db, p, ks)]
        /\ UNCHANGED <<db, disk, now, mon>>

GetMostConnectedFiles ==
    \E n \in 0..MaxLimit :
        /\ ret' = [op |-> "get_most_connected_files", limit |-> n,
                   val |-> get_most_connected_files(db, n)]
        /\ UNCHANGED <<db, disk, now, mon>>

SearchFilesByPattern ==
    \E pat \in Patterns, t \in SearchTypes :
        /\ ret' = [op |-> "search_files_by_pattern", pattern |-> pat,
                   file_type |-> t, val |-> search_files_by_pattern(db, pat, t)]
        /\ UNCHANGED <<db, disk, now, mon>>

GetChangeTimeline ==
    \E p \in Paths, d \in DayCounts :
        /\ ret' = [op |-> "get_change_timeline", path |-> p, days |-> d,
                   val |-> get_change_timeline(db, p, d, now)]
        /\ UNCHANGED <<db, disk, now, mon>>

\* a read that commits what the connection holds pending
GetDatabaseStatsCommitting ==
    /\ ret' = [op |-> "get_database_stats", val |-> get_database_stats(db)]
    /\ disk' = db
    /\ UNCHANGED <<db, now, mon>>

GetDatabaseStats ==
    /\ ret' = [op |-> "get_database_stats", val |-> get_database_stats(db)]
    /\ UNCHANGED <<db, disk, now, mon>>

\* identifiers a snapshot is asked for by
SnapshotIds == {"scan1", PyNone} \cup {StampId(d * DaySeconds) : d \in 0..MaxDay}

GetSnapshotData ==
    \E id \in SnapshotIds :
        /\ ret' = [op |-> "get_snapshot_data", snapshot_id |-> id,
                   val |-> get_snapshot_data(db, id)]
        /\ UNCHANGED <<db, disk, now, mon>>

\* close_connection() followed by create_knowledge_graph(): what was not
\* committed is gone
Reopen ==
    /\ db' = disk
    /\ ret' = [op |-> "reopen"]
    /\ UNCHANGED <<disk, now, mon>>

----------------------------------------------------------------------------
(* Operations of the file change monitor *)

\* what the operating system answers to inotify_init
InitOutcomes == {"no_libc", "refused", "opened"}

\* the lists a session is built with
DirLists == {<<"/missing">>} \cup UNION {[1..n -> Dirs] : n \in 0..MaxDirs}

\* the directories of watch_dirs a start could register: they exist and the
\* kernel accepts them
Registrable(m, exists, refused) ==
    {m.watch_dirs[i] : i \in 1..Len(m.watch_dirs)} \cap (exists \ refused)

StartMonitoring(outcomes, worlds) ==
    \E outcome \in outcomes, exists \in worlds, refused \in SUBSET Dirs :
        LET r == start_monitoring(mon, outcome, exists, refused)
        IN /\ mon.impl = "FileChangeMonitor"
           /\ refused \subseteq exists
           /\ Cardinality(r.m.open) <= MaxOpen
           /\ mon' = r.m
           /\ ret' = [op |-> "start_monitoring", val |-> r.val,
                      opened |-> outcome = "opened",
                      registrable |-> Registrable(mon, exists, refused),
                      active |-> mon.running]
           /\ UNCHANGED <<db, disk, now>>

StartTracking(outcomes, worlds) ==
    \E outcome \in outcomes, exists \in worlds :
        LET r == start_tracking(mon, outcome, exists)
        IN /\ mon.impl = "FileChangeTracker"
           /\ Cardinality(r.m.open) <= MaxOpen
           /\ mon' = r.m
           /\ ret' = [op |-> "start_tracking", val |-> r.val,
                      opened |-> outcome = "opened",
                      registrable |-> Registrable(mon, exists, {}),
                      active |-> mon.running]
           /\ UNCHANGED <<db, disk, now>>

\* the cumulative counters stay within the bound of the model
WithinCounts(m) == \A k \in EventKinds : m.stats[k] <= MaxCount

\* poll_changes (poll_events of the tracker has the same body); data is what
\* os.read returns when select reports the channel readable
PollChanges(buffers, max_events) ==
    \E ready \in BOOLEAN, data \in buffers :
        LET r == poll_changes(mon, ready, data, now, max_events)
        IN /\ WithinCounts(r.m)
           /\ mon' = r.m
           /\ ret' = [op |-> "poll_changes", val |-> r.val, raised |-> r.raised,
                      waited |-> r.waited, appended |-> r.appended,
                      data |-> IF r.waited /\ ready THEN data ELSE <<>>,
                      active |-> mon.running,
                      ring |-> mon.events, stats |-> mon.stats]
           /\ UNCHANGED <<db, disk, now>>

\* stop_monitoring (stop_tracking of the tracker has the same body)
StopMonitoring ==
    LET r == stop_monitoring(mon)
    IN /\ mon' = r.m
       /\ ret' = [op |-> "stop_monitoring", raised |-> r.raised,
                  stopped |-> ~mon.running /\ mon.fd = NULL /\ mon.watches = {},
                  same |-> r.m = mon]
       /\ UNCHANGED <<db, disk, now>>

\* a poll of a session whose ring is still empty
FirstPoll(buffers) ==
    /\ mon.events = <<>>
    /\ PollChanges(buffers, MaxEvents)

\* max_events of a tracker built without arguments
DefaultMaxEvents == 1000

\* a poll of a default tracker, while the ring holds little more than a
\* summary's sample
SamplePoll(buffers) ==
    \E ready \in BOOLEAN, data \in buffers :
        LET r == poll_changes(mon, ready, data, now, DefaultMaxEvents)
        IN /\ Len(r.m.events) <= SampleSize + MaxRecords
           /\ mon' = r.m
           /\ ret' = [op |-> "poll_changes", val |-> r.val, raised |-> r.raised]
           /\ UNCHANGED <<db, disk, now>>

GetChangeSummary(windows) ==
    \E minutes \in windows :
        /\ ret' = [op |-> "get_change_summary", minutes |-> minutes,
                   val |-> get_change_summary(mon, minutes, now)]
        /\ UNCHANGED <<db, disk, now, mon>>

\* an hour passes
Hour ==
    /\ now < MaxHours * HourSeconds
    /\ now' = now + HourSeconds
    /\ ret' = [op |-> "hour"]
    /\ UNCHANGED <<db, disk, mon>>

\* start_file_monitoring of either module: the caller holds what it returns
StartFileMonitoring ==
    \E l \in DirLists, outcome \in InitOutcomes, exists \in SUBSET Dirs,
       module \in {"monitor", "inotify_monitor"} :
        /\ mon' = IF module = "monitor"
                  THEN start_file_monitoring(l, outcome, exists, {})
                  ELSE inotify_start_file_monitoring(l, outcome, exists, {})
        /\ ret' = [op |-> "start_file_monitoring", module |-> module,
                   opened |-> outcome = "opened",
                   registrable |-> Registrable(FileChangeMonitor(l), exists, {})]
        /\ UNCHANGED <<db, disk, now>>

\* the caller polls what it holds
PollHandle(buffers) ==
    \E ready \in BOOLEAN, data \in buffers :
        LET r == HandlePoll(mon, ready, data, now, MaxEvents)
        IN /\ mon.impl = "FileChangeMonitor" => WithinCounts(r.m)
           /\ mon' = r.m
           /\ ret' = [op |-> "poll_handle", val |-> r.val, raised |-> r.raised]
           /\ UNCHANGED <<db, disk, now>>

\* the caller asks what it holds for a summary
GetFileChanges(windows) ==
    \E minutes \in windows :
        /\ ret' = [op |-> "get_file_changes", minutes |-> minutes,
                   val |-> get_file_changes(mon, minutes, now)]
        /\ UNCHANGED <<db, disk, now, mon>>

\* scan_directory of either scanner class
ScanDirectory ==
    \E impl \in {"FileRelationshipMapper", "FileRelationshipScanner"},
       files \in Directories :
        \E orphaned \in OrphanedFiles(impl, Collect(files, 1),
                                      Connections(impl, Collect(files, 1))) :
            /\ ret' = [op |-> "scan_directory", impl |-> impl, files |-> files,
                       val |-> scan_directory(impl, <<"/", "e">>, files, orphaned)]
            /\ UNCHANGED <<db, disk, now, mon>>

\* build_dependency_graph of a scan result; scan_file_relationships builds
\* the graph of a run once, from the connections of all directories
BuildDependencyGraph ==
    \E connections \in ConnectionLists :
        /\ ret.op = "init"
        /\ ret' = [op |-> "build_dependency_graph", connections |-> connections,
                   val |-> build_dependency_graph(connections)]
        /\ UNCHANGED <<db, disk, now, mon>>

\* half an hour passes
HalfHour ==
    /\ now < MaxHours * HourSeconds
    /\ now' = now + HourSeconds \div 2
    /\ ret' = [op |-> "half_hour"]
    /\ UNCHANGED <<db, disk, mon>>

\* a day passes on the wall clock
Tick ==
    /\ now < MaxDay * DaySeconds
    /\ now' = now + DaySeconds
    /\ ret' = [op |-> "tick"]
    /\ UNCHANGED <<db, disk, mon>>

Init ==
    /\ db = EmptyTables
    /\ disk = EmptyTables
    /\ now = 0
    /\ ret = [op |-> "init"]
    /\ mon = FileChangeMonitor(WatchDirs)

\* a session of either implementation, built with any of the lists
InitMonitor ==
    /\ db = EmptyTables
    /\ disk = EmptyTables
    /\ now = 0
    /\ ret = [op |-> "init"]
    /\ mon \in {FileChangeMonitor(l) : l \in DirLists} \cup
               {FileChangeTracker(l) : l \in DirLists}

\* the two primitive writes of the store
Next ==
    \/ AddFileRecord(Paths, FileArgs)
    \/ AddFileRelationship(Paths, Kinds, Strengths)

Spec == Init /\ [][Next]_vars

\* the primitive writes and the graph queries
NextQuery ==
    \/ AddFileRecord(Paths, FileArgs)
    \/ AddFileRelationship(Paths, Kinds, Strengths)
    \/ GetFileConnections
    \/ FindConnectedFiles
    \/ GetMostConnectedFiles
    \/ SearchFilesByPattern

SpecQuery == Init /\ [][NextQuery]_vars

\* ingestion of extractor result trees
NextIngest ==
    \/ AddFileRecord(Paths, FileArgs)
    \/ UpdateFromRelationshipScan

SpecIngest == Init /\ [][NextIngest]_vars

\* the files the monitor reports changes of
TimelinePaths == {PathA, PathX}

\* snapshot documents carrying change records, the upserts that may touch the
\* same paths (an edge of any kind and strength touches its endpoints alike),
\* the clock and the change timeline
NextTimeline ==
    \/ AddFileRecord(TimelinePaths, {NoFileArgs})
    \/ AddFileRelationship(TimelinePaths, {"config_includes"}, {DefaultStrength})
    \/ UpdateGraphFromSpiderData(ChangeDocs(TimelinePaths, now), {FALSE})
    \/ Reopen
    \/ Tick
    \/ GetChangeTimeline

SpecTimeline == Init /\ [][NextTimeline]_vars

\* snapshot storage
NextSnapshots ==
    \/ StoreSystemSnapshot(PlainDocs)
    \/ Tick

SpecSnapshots == Init /\ [][NextSnapshots]_vars

\* snapshot documents with values of their own, stored and read back
NextRoundTrip ==
    \/ StoreSystemSnapshot(PayloadDocs)
    \/ GetSnapshotData

SpecRoundTrip == Init /\ [][NextRoundTrip]_vars

\* snapshot documents ingested or stored while the persistence layer may
\* reject the snapshot write
NextRejection ==
    \/ UpdateGraphFromSpiderData(GraphDocs(TimelinePaths, now), BOOLEAN)
    \/ StoreSystemSnapshot({NoKeys})

SpecRejection == Init /\ [][NextRejection]_vars

\* the six read operations, on stores with edges, change rows and rows the
\* connection has not committed
NextReads ==
    \/ AddFileRelationship(TimelinePaths, {"config_includes"}, {DefaultStrength})
    \/ UpdateGraphFromSpiderData(ChangeDocs(TimelinePaths, now), {FALSE})
    \/ GetFileConnections
    \/ FindConnectedFiles
    \/ GetMostConnectedFiles
    \/ SearchFilesByPattern
    \/ GetChangeTimeline
    \/ GetDatabaseStats

SpecReads == Init /\ [][NextReads]_vars

\* the life cycle of a session: start, poll, stop
NextSession ==
    \/ StartMonitoring(InitOutcomes, SUBSET Dirs)
    \/ StartTracking(InitOutcomes, SUBSET Dirs)
    \/ PollChanges(SessionBuffers, MaxEvents)
    \/ StopMonitoring

SpecSession == InitMonitor /\ [][NextSession]_vars

\* a running session over the hours: polls, summaries
NextRing ==
    \/ StartMonitoring({"opened"}, {Dirs})
    \/ PollChanges(RingBuffers, MaxEvents)
    \/ GetChangeSummary(Windows)
    \/ Hour

SpecRing == Init /\ [][NextRing]_vars

\* the first read of a session, over the decode buffers
NextDecode ==
    \/ StartMonitoring({"opened"}, {Dirs})
    \/ FirstPoll(DecodeBuffers)

SpecDecode == Init /\ [][NextDecode]_vars

\* a running session polled every half hour
NextOrder ==
    \/ StartMonitoring({"opened"}, {Dirs})
    \/ PollChanges(SessionBuffers, MaxEvents)
    \/ GetChangeSummary(Windows)
    \/ HalfHour

SpecOrder == Init /\ [][NextOrder]_vars

\* a caller of start_file_monitoring and what it does with the result
NextFallback ==
    \/ StartFileMonitoring
    \/ PollHandle(SessionBuffers)
    \/ GetFileChanges(Windows)

SpecFallback == Init /\ [][NextFallback]_vars

\* a session that decodes more events than a summary samples
NextSample ==
    \/ StartMonitoring({"opened"}, {Dirs})
    \/ SamplePoll(SampleBuffers)
    \/ GetChangeSummary({5})

SpecSample == Init /\ [][NextSample]_vars

\* scans of directories
NextScan == ScanDirectory

SpecScan == Init /\ [][NextScan]_vars

\* dependency graphs of scan results
NextGraph == BuildDependencyGraph

SpecGraph == Init /\ [][NextGraph]_vars

----------------------------------------------------------------------------
(* Properties *)

\* the stored edges from the file at source_path to the file at target_path
EdgesBetween(tables, source_path, target_path, rel_type) ==
    {e \in tables.relationships :
        /\ PathOfId(tables, e.source_file_id) = Some(source_path)
        /\ PathOfId(tables, e.target_file_id) = Some(target_path)
        /\ e.relationship_type = rel_type}

\* the stored edges with the file at `path` at either end
EdgesAt(tables, path) ==
    {e \in tables.relationships :
        \/ PathOfId(tables, e.source_file_id) = Some(path)
        \/ PathOfId(tables, e.target_file_id) = Some(path)}

Min(a, b) == IF a <= b THEN a ELSE b

\* C1: the store holds at most one edge per (source path, target path, kind),
\* and an upsertRelationship(s, t, k, strength) on an (s, t, k) that already
\* has an edge leaves exactly one such edge, carrying the strength just given.
C1_EdgeUniqueness ==
    /\ \A s \in Paths, t \in Paths, k \in Kinds :
          Cardinality(EdgesBetween(db, s, t, k)) <= 1
    /\ (ret.op = "add_file_relationship" /\ ret.existed) =>
          /\ Cardinality(EdgesBetween(db, ret.source, ret.target, ret.kind)) = 1
          /\ \A e \in EdgesBetween(db, ret.source, ret.target, ret.kind) :
                e.strength = ret.strength

\* C2: there is one files row per stored path; an upsertFile that returns
\* leaves exactly one row for its path, holding the type (when given), size,
\* mtime and hash of the call; and on a store that holds nothing but files
\* (all that a sequence of upsertFile calls produces) upsertFile returns.
C2_UpsertFileIdempotent ==
    /\ \A f \in db.files, g \in db.files : f.path = g.path => f = g
    /\ (ret.op = "add_file_record" /\ ret.ok) =>
          /\ Cardinality({f \in db.files : f.path = ret.path}) = 1
          /\ \A f \in db.files : f.path = ret.path =>
                /\ f.size = ret.args.size
                /\ f.modified_time = ret.args.modified_time
                /\ f.content_hash = ret.args.content_hash
                /\ ret.args.file_type # NULL => Some(f.file_type) = ret.args.file_type
    /\ (ret.op = "add_file_record" /\ db.relationships = {} /\ db.file_changes = {})
          => ret.ok

\* C2 witness: an upsertFile returned on a path whose row already held the
\* very values of the call, one of them a non-default size.
C2_Witness ==
    /\ ret.op = "add_file_record"
    /\ ret.ok
    /\ ret.same
    /\ ret.args.size # NULL

\* C3: ingestExtractorGraph returns normally on every result tree, and then
\* the store holds an edge for every reference of every connections entry.
C3_IngestCompletes ==
    ret.op = "update_from_relationship_scan" =>
        /\ ret.ok
        /\ \A i \in 1..Len(ret.scan_results) :
              \A j \in 1..Len(ret.scan_results[i].references) :
                 EdgesBetween(db, ret.scan_results[i].file,
                              ret.scan_results[i].references[j].target,
                              ret.scan_results[i].references[j].kind) # {}

\* C4: an upsertRelationship call that fails persists none of its writes:
\* the committed tables are after the call what they were before it.
C4_RelationshipUpsertAtomic ==
    [][(ret'.op = "add_file_relationship" /\ ~ret'.ok) => disk' = disk]_vars

\* the files other than `path` that share an edge with it, in either direction,
\* over the edges whose kind is in `kinds`
FilesSharingAnEdge(tables, path, kinds) ==
    {q \in Paths \ {path} :
        \E k \in kinds :
            EdgesBetween(tables, path, q, k) \cup EdgesBetween(tables, q, path, k) # {}}

\* C5: connectedFiles(path, kinds) returns exactly the files other than path
\* that share an edge with path, over the edges of a kind in kinds when kinds
\* is given and over all edges when it is omitted.
C5_ConnectedFilesExact ==
    ret.op = "find_connected_files" =>
        ret.val = FilesSharingAnEdge(db, ret.path,
                    IF ret.kinds = NULL THEN Kinds
                    ELSE {TheValue(ret.kinds)[i] : i \in 1..Len(TheValue(ret.kinds))})

\* the file_changes rows recorded for a path (new_value holds the path), newer
\* than the cutoff
ChangesOfPath(tables, path, cutoff) ==
    {c \in tables.file_changes : c.new_value = Some(path) /\ c.timestamp > cutoff}

C8_SearchIsLiteralSubstring ==
    ret.op = "search_files_by_pattern" =>
        {r.path : r \in ret.val} =
            {f.path : f \in {g \in db.files :
                /\ Contains(g.path, ret.pattern)
                /\ ret.file_type # NULL => Some(g.file_type) = ret.file_type}}

\* C9: neighbors(path) returns {'error': 'file not found'} when no files row
\* has the path, and a result with outgoing and incoming lists and no error
\* key when one has.
C9_NeighborsNotFound ==
    ret.op = "get_file_connections" =>
        IF \E f \in db.files : f.path = ret.path
        THEN /\ "error" \notin DOMAIN ret.val
             /\ {"outgoing", "incoming"} \subseteq DOMAIN ret.val
        ELSE ret.val = [error |-> "file not found"]

\* C9 witness: neighbors of an unknown path on a store that holds an edge.
C9_Witness ==
    /\ ret.op = "get_file_connections"
    /\ "error" \in DOMAIN ret.val
    /\ db.relationships # {}

DocumentOf(snapshot_data) ==
    [k \in {j \in DOMAIN snapshot_data : snapshot_data[j] # NULL} |->
        TheValue(snapshot_data[k])]

\* C11: after a storeSnapshot(doc) that returned true, retrieving the snapshot
\* by the identifier it was stored under (the document's scan_id, or the
\* timestamp-derived one) returns a document equal to doc.
C11_SnapshotRoundTrip ==
    (ret.op = "store_system_snapshot" /\ ret.val = TRUE) =>
        get_snapshot_data(db, OrElse(ret.snapshot_data.scan_id, StampId(now))) =
            DocumentOf(ret.snapshot_data)

\* C12: storeSnapshot returns true exactly when its write was not rejected,
\* and update_graph_from_spider_data returns true only if the snapshot row,
\* an edge for every reference and a change row for every change record of
\* the document are stored.
C12_RejectedWriteIsFalse ==
    /\ ret.op = "store_system_snapshot" => (ret.val = TRUE <=> ~ret.rejected)
    /\ (ret.op = "update_graph_from_spider_data" /\ ret.val = TRUE) =>
          LET d == ret.snapshot
              tree == OrElse(d.file_relationships, <<>>)
              changes == OrElse(d.file_changes, <<>>)
          IN /\ \E r \in db.system_snapshots :
                   r.snapshot_id = OrElse(d.scan_id, StampId(now))
             /\ \A i \in 1..Len(tree) : \A j \in 1..Len(tree[i].references) :
                   EdgesBetween(db, tree[i].file, tree[i].references[j].target,
                                tree[i].references[j].kind) # {}
             /\ \A i \in 1..Len(changes) :
                   ChangesOfPath(db, changes[i].file, changes[i].time - 1) # {}

ReadOps ==
    {"get_file_connections", "find_connected_files", "get_most_connected_files",
     "search_files_by_pattern", "get_change_timeline", "get_database_stats"}

\* C13: a step of neighbors, connectedFiles, topConnected, searchByPattern,
\* changeTimeline or stats leaves the four tables as they were, both as the
\* connection sees them and as committed.
C13_ReadsDoNotMutate ==
    [][ret'.op \in ReadOps => (db' = db /\ disk' = disk)]_vars

\* C13 witness: stats read on a connection that holds an uncommitted change
\* row beside committed files.
C13_Witness ==
    /\ ret.op = "get_database_stats"
    /\ db.file_changes # disk.file_changes
    /\ ret.val.total_files >= 1

\* C14: start returns true and the session is active exactly when the OS
\* channel opened and at least one existing directory of the list was
\* registered; in every other case it returns false and the session is
\* inactive.
C14_StartIffRegistered ==
    ret.op \in {"start_monitoring", "start_tracking"} =>
        /\ ret.val = (ret.opened /\ ret.registrable # {})
        /\ mon.running = (ret.opened /\ ret.registrable # {})

\* C15: poll never raises; on a session that is not active it returns an
\* empty list without waiting on the OS channel; on an active session it
\* returns an empty list when no data arrived.
C15_PollNeverRaises ==
    ret.op = "poll_changes" =>
        /\ ~ret.raised
        /\ ~ret.active => (ret.val = <<>> /\ ~ret.waited)
        /\ ret.data = <<>> => ret.val = <<>>

\* C16: after stop the session is inactive, the OS channel is released and
\* the watch table is empty; no stop raises, and a stop on a session that is
\* already stopped changes nothing.
C16_StopIdempotent ==
    ret.op = "stop_monitoring" =>
        /\ ~ret.raised
        /\ ~mon.running /\ mon.fd = NULL /\ mon.watches = {}
        /\ ret.stopped => ret.same

\* C17: after a poll the ring holds at most K events, and they are the last
\* K of the events the ring held followed by the events the poll decoded, in
\* that order (all of them when there are fewer than K); every per-kind
\* counter is its value before the poll plus the occurrences of the kind in
\* the decoded events, so eviction takes nothing from it.
C17_RingKeepsNewest ==
    ret.op = "poll_changes" =>
        LET all == ret.ring \o ret.appended
            kept == IF Len(all) < MaxEvents THEN Len(all) ELSE MaxEvents
        IN /\ Len(mon.events) = kept
           /\ \A i \in 1..kept : mon.events[i] = all[Len(all) - kept + i]
           /\ \A k \in EventKinds :
                 mon.stats[k] = ret.stats[k] + KindCount(ret.appended, k)

\* C17 witness: a poll whose events pushed older ones out of the full ring,
\* so that a counter holds more than the ring shows.
C17_Witness ==
    /\ ret.op = "poll_changes"
    /\ ret.appended # <<>>
    /\ Len(ret.ring) = MaxEvents
    /\ Len(mon.events) = MaxEvents
    /\ \E k \in EventKinds : mon.stats[k] > KindCount(mon.events, k)

\* the retained events whose decode instant lies in the trailing window
InWindow(events, minutes, clock) ==
    SelectSeq(events, LAMBDA e : e.instant >= clock - minutes * 60)

\* C18: the summary of a window counts exactly the retained events decoded
\* within the trailing `minutes`: total_events is their number,
\* files_changed and directories_affected are the sets of their paths and
\* directories, and event_breakdown sums their change kinds.
C18_WindowedSummary ==
    ret.op = "get_change_summary" =>
        LET recent == InWindow(mon.events, ret.minutes, now)
        IN /\ ret.val.total_events = Len(recent)
           /\ ret.val.files_changed = {recent[i].path : i \in 1..Len(recent)}
           /\ ret.val.directories_affected =
                 {recent[i].directory : i \in 1..Len(recent)}
           /\ \A k \in EventKinds :
                 (IF k \in DOMAIN ret.val.event_breakdown
                  THEN ret.val.event_breakdown[k] ELSE 0) = KindCount(recent, k)

\* C19: a read returns (and decodes) no more events than the buffer has room
\* for 16-byte headers, and the change-kind list of every decoded event names
\* exactly the recognised bits set in its mask, once each: it is empty when
\* no recognised bit is set.
C19_DecodedWithinHeaders ==
    (ret.op = "poll_changes" /\ ret.data # <<>>) =>
        /\ Len(ret.val) * HeaderSize <= Len(ret.data)
        /\ Len(ret.appended) * HeaderSize <= Len(ret.data)
        /\ \A i \in 1..Len(ret.appended) :
              LET e == ret.appended[i]
                  set == {k \in 1..Len(EVENT_NAMES) :
                             (e.mask \div EVENT_NAMES[k].mask) % 2 = 1}
              IN /\ {e.event_types[j] : j \in 1..Len(e.event_types)} =
                       {EVENT_NAMES[k].name : k \in set}
                 /\ Len(e.event_types) = Cardinality(set)

\* C19 witness: a read that returned an event with two change kinds and an
\* event whose mask is not empty but holds no recognised bit.
C19_Witness ==
    /\ ret.op = "poll_changes"
    /\ \E i, j \in 1..Len(ret.val) :
          /\ Len(ret.val[i].event_types) = 2
          /\ ret.val[j].event_types = <<>>
          /\ ret.val[j].mask # 0

\* the offset at which the well-formed records of a buffer end: the first
\* offset, walking the records from i, where no whole header or not the
\* whole declared name is left
RECURSIVE WellFormedEnd(_, _)
WellFormedEnd(data, i) ==
    IF Len(data) - i < HeaderSize THEN i
    ELSE LET name_len == UnpackU32(Slice(data, i + 12, i + 16))
         IN IF i + HeaderSize + name_len > Len(data) THEN i
            ELSE WellFormedEnd(data, i + HeaderSize + name_len)

\* C20: a read returns exactly the events of the well-formed records of its
\* buffer: a record whose declared name length overruns the buffer, or a
\* truncated trailing header, yields no event and takes none away.
C20_MalformedSkipped ==
    (ret.op = "poll_changes" /\ ret.data # <<>>) =>
        ret.val = DecodeFrom(SubSeq(ret.data, 1, WellFormedEnd(ret.data, 0)), 0,
                             mon.watches, now).events

\* C21: the events of successive polls have non-decreasing timestamps: after
\* a poll, the events the ring held followed by the events the poll decoded
\* are in timestamp order; and the sample of a summary lists its events in
\* timestamp order.
C21_EventsInOrder ==
    /\ ret.op = "poll_changes" =>
          LET all == ret.ring \o ret.appended
          IN \A i, j \in 1..Len(all) :
                i < j => all[i].timestamp.local <= all[j].timestamp.local
    /\ ret.op = "get_change_summary" =>
          \A i, j \in 1..Len(ret.val.recent_changes) :
             i < j => ret.val.recent_changes[i].time.local <=
                      ret.val.recent_changes[j].time.local

\* C22: when monitoring cannot be started (the channel did not open or no
\* directory registered), start_file_monitoring returns a no-op monitor: every
\* poll on it returns an empty list without raising and every summary
\* reports zero events with empty file, directory, kind and sample
\* collections.
C22_FallbackIsNoOp ==
    /\ (ret.op = "start_file_monitoring" /\ ~(ret.opened /\ ret.registrable # {})) =>
          mon.impl = "MockFileMonitor"
    /\ (ret.op = "poll_handle" /\ mon.impl # "FileChangeMonitor") =>
          (~ret.raised /\ ret.val = <<>>)
    /\ (ret.op = "get_file_changes" /\ mon.impl # "FileChangeMonitor") =>
          /\ "total_events" \in DOMAIN ret.val
          /\ ret.val.total_events = 0
          /\ ret.val.files_changed = {}
          /\ ret.val.directories_affected = {}
          /\ ret.val.event_breakdown = <<>>
          /\ ret.val.recent_changes = <<>>

\* C28: the ring and the counters hold exactly what poll returned: the events
\* a poll appends and counts are the list it returns, so a poll that returns
\* an empty list leaves the ring and the counters as they were.
C28_RingMatchesReturned ==
    ret.op = "poll_changes" =>
        /\ ret.appended = ret.val
        /\ ret.val = <<>> => (mon.events = ret.ring /\ mon.stats = ret.stats)

\* C29: a session owns exactly one open notification channel, the one its
\* descriptor names, when it is active and none when it is inactive, and
\* every entry of its watch table is registered on that channel.
C29_OneChannelWhenActive ==
    /\ mon.running => (mon.fd # NULL /\ mon.open = mon.fd)
    /\ ~mon.running => mon.open = {}
    /\ mon.watches # {} => (mon.fd # NULL /\ mon.fd \subseteq mon.open)
    /\ mon.watches \subseteq mon.kernel

\* C30: the sample of a summary has min(10, total_events) entries, and they
\* are the most recent of the events in the window, in order.
C30_SampleKeepsLast ==
    ret.op = "get_change_summary" =>
        LET recent == get_recent_events(mon.events, ret.minutes, now)
            n == Len(recent)
            k == IF n < SampleSize THEN n ELSE SampleSize
            sample == ret.val.recent_changes
        IN /\ ret.val.total_events = n
           /\ Len(sample) = k
           /\ \A i \in 1..k :
                 sample[i] = [time |-> recent[n - k + i].timestamp,
                              file |-> recent[n - k + i].path,
                              changes |-> recent[n - k + i].event_types]

\* C25: ingesting a document appends one file_changes row for each entry of
\* its recent_changes (kind = the changes joined, new value = the path,
\* timestamp = the entry's time), linked to the files row of the path, also
\* when the list names a file twice; and no step modifies or removes a
\* file_changes row that is stored.
C25_ChangeRowsAppended ==
    [][/\ disk.file_changes \subseteq disk'.file_changes
       /\ (ret'.op = "update_graph_from_spider_data" /\ ret'.snapshot.file_changes # NULL) =>
             LET changes == TheValue(ret'.snapshot.file_changes)
                 added == db'.file_changes \ db.file_changes
             IN /\ db.file_changes \subseteq db'.file_changes
                /\ Cardinality(added) = Len(changes)
                /\ \A i \in 1..Len(changes) :
                      \E c \in added :
                         /\ c.change_type = JoinComma(changes[i].changes)
                         /\ c.new_value = Some(changes[i].file)
                         /\ c.timestamp = changes[i].time
                         /\ {c.file_id} = _get_file_id(db', changes[i].file)]_vars

\* C26: an upsertFile on a path the store knows returns the id the path
\* already had, and after every step each relationships row's source and
\* target and each file_changes row's file refer to an existing files row.
C26_UpsertKeepsId ==
    [][/\ (ret'.op = "add_file_record" /\ ret'.ok /\ _get_file_id(db, ret'.path) # NULL) =>
             {ret'.val} = _get_file_id(db, ret'.path)
       /\ \A r \in db'.relationships :
             /\ PathOfId(db', r.source_file_id) # NULL
             /\ PathOfId(db', r.target_file_id) # NULL
       /\ \A c \in db'.file_changes : PathOfId(db', c.file_id) # NULL]_vars

\* C27: after ingestExtractorGraph returned, every source file of the tree
\* carries the size and the modification time of its connections entry.
C27_IngestKeepsSizeAndMtime ==
    (ret.op = "update_from_relationship_scan" /\ ret.ok) =>
        \A i \in 1..Len(ret.scan_results) :
           \A f \in db.files :
              f.path = ret.scan_results[i].file =>
                 /\ f.size = ret.scan_results[i].size
                 /\ f.modified_time = ret.scan_results[i].modified

\* C23: scanDirectory reports as orphaned_files collected files that are the
\* target of no discovered reference, at most 20 and all of them when there
\* are at most 20; for a directory holding a.cfg with include "d.cfg" and an
\* empty d.cfg, connections has one entry, for a.cfg, with one reference to
\* d.cfg, a.cfg is in orphaned_files and d.cfg is not.
C23_OrphansReported ==
    ret.op = "scan_directory" =>
        LET collected == {ret.files[i].path : i \in
                             {j \in 1..Len(ret.files) :
                                 \E k \in 1..Len(ScanExtensions) :
                                    PathSuffix(ret.files[j].path) = ScanExtensions[k]}}
            orphans == collected \ ReferencedFiles(ret.val.connections)
        IN /\ ret.val.orphaned_files \subseteq orphans
           /\ Cardinality(ret.val.orphaned_files) =
                 (IF Cardinality(orphans) < OrphanSample THEN Cardinality(orphans)
                  ELSE OrphanSample)
           /\ (/\ Len(ret.files) = 2
               /\ ret.files[1].path = ConfApp /\ ret.files[2].path = ConfDb
               /\ ret.files[1].content =
                     <<[word |-> "include", arg |-> <<"d", ".", "c", "f", "g">>,
                        quoted |-> TRUE]>>
               /\ ret.files[2].content = <<>>) =>
                  /\ Len(ret.val.connections) = 1
                  /\ ret.val.connections[1].file = ConfApp
                  /\ Len(ret.val.connections[1].references) = 1
                  /\ ret.val.connections[1].references[1].targets = {ConfDb}
                  /\ ConfApp \in ret.val.orphaned_files
                  /\ ConfDb \notin ret.val.orphaned_files

\* the sum of a histogram
RECURSIVE HistogramSum(_, _)
HistogramSum(h, keys) ==
    IF keys = {} THEN 0
    ELSE LET k == CHOOSE x \in keys : TRUE IN h[k] + HistogramSum(h, keys \ {k})

\* the (source, kind, target) triples of a scan result
Triples(connections) ==
    UNION {UNION {{<<connections[i].file, connections[i].references[j].kind,
                     connections[i].references[j].targets[k]>> :
                      k \in 1..Len(connections[i].references[j].targets)} :
                   j \in 1..Len(connections[i].references)} :
           i \in 1..Len(connections)}

\* position of a file in connections
SeenAt(connections, file) ==
    CHOOSE i \in 1..Len(connections) : connections[i].file = file

\* C24: buildDependencyGraph yields one node per file of connections and one
\* edge per (source, kind, target) triple, numbered 0, 1, ..., n-1 in the order
\* of emission; total_connections is the number of edges and the sum of the
\* per-kind histogram; most_connected lists at most 10 files, the ones with
\* the most outgoing references, by non-increasing count, ties in first-seen
\* order.
C24_GraphWellFormed ==
    ret.op = "build_dependency_graph" =>
        LET c == ret.connections
            g == ret.val
            top == g.stats.most_connected
            Out(file) == Cardinality({e \in 1..Len(g.edges) : g.edges[e].source = file})
        IN /\ Len(g.nodes) = Len(c)
           /\ \A i \in 1..Len(c) : g.nodes[i].id = c[i].file
           /\ g.stats.total_files = Len(c)
           /\ \A e \in 1..Len(g.edges) : g.edges[e].id = e - 1
           /\ {<<g.edges[e].source, g.edges[e].type, g.edges[e].target>> :
                  e \in 1..Len(g.edges)} = Triples(c)
           /\ Len(g.edges) = Cardinality(Triples(c))
           /\ \A e, f \in 1..Len(g.edges) :
                 e < f => SeenAt(c, g.edges[e].source) <= SeenAt(c, g.edges[f].source)
           /\ g.stats.total_connections = Len(g.edges)
           /\ g.stats.total_connections =
                 HistogramSum(g.stats.connection_types, DOMAIN g.stats.connection_types)
           /\ \A kind \in DOMAIN g.stats.connection_types :
                 g.stats.connection_types[kind] =
                    Cardinality({e \in 1..Len(g.edges) : g.edges[e].type = kind})
           /\ Len(top) = (IF Len(c) < 10 THEN Len(c) ELSE 10)
           /\ \A i \in 1..Len(top) :
                 /\ \E n \in 1..Len(c) : c[n].file = top[i].file
                 /\ top[i].connections = Out(top[i].file)
           /\ \A i, j \in 1..Len(top) :
                 i < j =>
                    /\ top[i].connections >= top[j].connections
                    /\ top[i].connections = top[j].connections =>
                          SeenAt(c, top[i].file) < SeenAt(c, top[j].file)
           /\ \A n \in 1..Len(c) :
                 (\A i \in 1..Len(top) : top[i].file # c[n].file) =>
                    \A i \in 1..Len(top) :
                       \/ top[i].connections > Out(c[n].file)
                       \/ /\ top[i].connections = Out(c[n].file)
                          /\ SeenAt(c, top[i].file) < n

\* a graph of more than 10 files where files of different counts and files of
\* the same count are ranked and a file is left out
C24_Witness ==
    /\ ret.op = "build_dependency_graph"
    /\ Len(ret.connections) > 10
    /\ Len(ret.val.stats.most_connected) = 10
    /\ ret.val.stats.most_connected[1].connections >
          ret.val.stats.most_connected[10].connections
    /\ ret.val.stats.most_connected[1].connections =
          ret.val.stats.most_connected[2].connections
    /\ ret.val.stats.most_connected[1].file # ret.connections[1].file
    /\ ret.val.stats.total_connections > Len(ret.connections)

====
